---- MODULE Spec2Model ----
(***************************************************************************)
(* Verification model of the kraken crawl engine (kluhan/kraken).          *)
(*                                                                         *)
(* The engine is modelled component by component.  Every component owns a  *)
(* group of variables and a specification of its own:                      *)
(*                                                                         *)
(*   SpecDoc    HistoricDocument.save / history      (core/types)          *)
(*   SpecSched  StaticScheduler.start on its own     (core/schedulers)     *)
(*   SpecTasks  the scheduler with the dispatcher and the CrawlTask        *)
(*              handlers of the workers              (core/tasks/base.py)  *)
(*   SpecStage  multi_stage_crawler, StageProcessor, Spider, terminators   *)
(*   SpecDisc   target_discovery_pipeline on concurrent workers            *)
(*   SpecAlloc  StaticResourceAllocator and a submitting consumer          *)
(*   SpecSum    combine_dicts_by_addition            (utils/pipeline.py)   *)
(*   SpecResult PipelineResult.__add__ / __radd__    (core/types)          *)
(*   SpecBudget budget_terminator over the steps of a stage                *)
(*   SpecRecompute  UniformResourceAllocator.__recompute_buckets           *)
(*   SpecBucket     Bucket.normalise / Bucket.allocate  (core/types)       *)
(*   SpecMerge      SlimTarget.merge  (core/types/slim_target.py)          *)
(*   SpecKey        mongodb_key_sanitizer  (utils/mongoengine.py)          *)
(*   SpecSeries     Series.set_filter / get_filter  (core/types/series.py) *)
(*   SpecRace       HistoricDocument.save by concurrent workers            *)
(*   SpecSpider     Spider.__next__  (core/spider.py)                      *)
(*   SpecMonitor    target_monitor_callback  (core/tasks/callbacks)        *)
(*   SpecLive       the static scheduler running to its end beside the     *)
(*                  workers, under fairness                                *)
(*   SpecPairs      the merge loop of target_discovery_pipeline            *)
(*                                                                         *)
(* A specification leaves the variables of the other components at their   *)
(* idle values.                                                            *)
(***************************************************************************)
EXTENDS Integers, Sequences, FiniteSets, TLC

VARIABLES
    \* ---- HistoricDocument (data store) ----
    store,        \* pk -> persisted document, or NoDoc
    docClock,     \* wall clock of the storage worker
    importTime,   \* time at which the worker process imported historic_document
    saves,        \* pk -> number of save() calls performed so far
    lastSave,     \* what the latest save() did (key, previous payload, return value)
    observed,     \* pk -> for every save after the first: did the payload change
    storing,      \* the saves of concurrent storage workers between lookup and write
    \* ---- scheduler, dispatcher and crawl tasks (metadata store) ----
    clock,        \* wall clock (datetime.now) of the scheduler host
    crawl,        \* the persisted Crawl document
    memCrawl,     \* the scheduler's in-memory Crawl object (self.crawl)
    targets,      \* target id -> [matches, queued]: the persisted Targets
    sched,        \* the scheduler's position and locals inside start()
    tokens,       \* token id -> the persisted ExecutionToken (or its removal)
    tasks,        \* the crawl tasks handed to the dispatcher, in dispatch order
    emitted,      \* the batches _allocate has yielded so far, in order
    \* ---- one crawl task: multi_stage_crawler, StageProcessor, Spider ----
    job,          \* the task's `stages` argument: every stage with its progress
    run,          \* the task's position and locals (spider, pipeline group, ...)
    trace,        \* what the task has done so far (requests, emissions, ...)
    \* ---- target_discovery_pipeline on concurrent workers ----
    targetStore,  \* kwargs -> number of persisted Targets with these kwargs
    discovery,    \* worker -> position and locals of its pipeline run
    \* ---- combine_dicts_by_addition ----
    operands,     \* the three values the additions are applied to
    sums,         \* the position of the caller and the results it has so far
    \* ---- budget_terminator over the steps of a stage ----
    budgetRun,    \* the kwargs, the aggregated statistics and the latest results
    \* ---- UniformResourceAllocator and Bucket ----
    recompute,    \* position and locals of one call of __recompute_buckets
    bucket,       \* one Bucket object and what its methods did so far
    \* ---- SlimTarget ----
    merging,      \* the arguments of one SlimTarget.merge, the dicts they hold, the outcome
    \* ---- mongodb_key_sanitizer ----
    keyRun,       \* a string, and what sanitizing it once and twice returned
    \* ---- Series ----
    series,       \* the filter field of a Series and what its accessors were given and returned
    \* ---- Spider ----
    spiderRun,    \* a Spider, its target and the requests and results so far
    \* ---- target_monitor_callback ----
    monitored,    \* a Target, the queue of its series and the callbacks under way
    \* ---- target_discovery_pipeline, merge loop ----
    pairing       \* the defaults, the discovered kwargs and the Targets built so far

docVars == <<store, docClock, importTime, saves, lastSave, observed, storing>>
schedVars == <<clock, crawl, memCrawl, targets, sched, tokens, tasks, emitted>>

stageVars == <<job, run, trace>>
discVars == <<targetStore, discovery>>
sumVars == <<operands, sums>>
budgetVars == <<budgetRun>>
uniformVars == <<recompute, bucket>>
typeVars == <<merging, keyRun, series>>
lateVars == <<spiderRun, monitored, pairing>>

vars == <<docVars, schedVars, stageVars, discVars, sumVars, budgetVars, uniformVars, typeVars, lateVars>>

\* what an action of one component leaves alone
DocOnly == <<schedVars, stageVars, discVars, sumVars, budgetVars, uniformVars, typeVars, lateVars>>
SchedOnly == <<docVars, stageVars, discVars, sumVars, budgetVars, uniformVars, typeVars, lateVars>>
StageOnly == <<docVars, schedVars, discVars, sumVars, budgetVars, uniformVars, typeVars, lateVars>>
DiscOnly == <<docVars, schedVars, stageVars, sumVars, budgetVars, uniformVars, typeVars, lateVars>>
SumOnly == <<docVars, schedVars, stageVars, discVars, budgetVars, uniformVars, typeVars, lateVars>>
BudgetOnly == <<docVars, schedVars, stageVars, discVars, sumVars, uniformVars, typeVars, lateVars>>
UniformOnly == <<docVars, schedVars, stageVars, discVars, sumVars, budgetVars, typeVars, lateVars>>
TypeOnly == <<docVars, schedVars, stageVars, discVars, sumVars, budgetVars, uniformVars, lateVars>>
LateOnly == <<docVars, schedVars, stageVars, discVars, sumVars, budgetVars, uniformVars, typeVars>>

(***************************************************************************)
(* Generic helpers                                                         *)
(***************************************************************************)

\* Python's list.append
Append1(s, e) == s \o <<e>>

\* the last element of a non-empty list (Python's s[-1])
Last(s) == s[Len(s)]

RECURSIVE SeqSum(_)
SeqSum(s) == IF s = <<>> THEN 0 ELSE Head(s) + SeqSum(Tail(s))

(***************************************************************************)
(* HistoricDocument                                                        *)
(***************************************************************************)

\* bounds of the document model
MaxSaves == 3

DocKeySeq == <<"a:en", "b:en">>
DocKeys == {DocKeySeq[i] : i \in 1..Len(DocKeySeq)}
DocCrawls == {"C1", "C2"}

\* A payload maps every declared field to a value; Absent is a field whose
\* value is None (mongoengine does not serialise such a field).
Absent == "absent"
DocFields == <<"title", "score">>
FieldValues == [title |-> {"X", "Y"}, score |-> {Absent, "1"}]
Payloads == [title : FieldValues.title, score : FieldValues.score]

NoDoc == [exists |-> FALSE]

\* Witness(crawl=crawl_pk): the timestamp default is the value datetime.utcnow()
\* had when the class body ran, i.e. the import time of the module.
Witness(crawl_pk) == [crawl |-> crawl_pk, timestamp |-> importTime]

\* Patch(crawl=crawl_pk.pk, changes=changes): the timestamp default is the
\* callable datetime.utcnow, evaluated when the patch is built.
Patch(crawl_pk, changes, now) == [crawl |-> crawl_pk, timestamp |-> now, changes |-> changes]

\* Document.to_mongo(): the serialised form; fields that are None are left out.
ToMongo(doc) ==
    [fields    |-> {<<f, doc.payload[f]>> : f \in {g \in DOMAIN doc.payload : doc.payload[g] # Absent}},
     witnesses |-> doc.witnesses,
     updates   |-> doc.updates]

\* One operation of a JSON patch that turns src into dst, for field f.
PatchOp(src, dst, f) ==
    IF src[f] = dst[f] THEN <<>>
    ELSE IF dst[f] = Absent THEN <<[op |-> "remove", path |-> f, value |-> Absent]>>
    ELSE IF src[f] = Absent THEN <<[op |-> "add", path |-> f, value |-> dst[f]]>>
    ELSE <<[op |-> "replace", path |-> f, value |-> dst[f]]>>

\* jsonpatch.make_patch(src, dst): the operations that turn src into dst.
RECURSIVE MakePatchFrom(_, _, _)
MakePatchFrom(src, dst, i) ==
    IF i > Len(DocFields) THEN <<>>
    ELSE PatchOp(src, dst, DocFields[i]) \o MakePatchFrom(src, dst, i + 1)

MakePatch(src, dst) == MakePatchFrom(src, dst, 1)

\* jsonpatch's application of a list of operations to a payload.
RECURSIVE ApplyPatch(_, _)
ApplyPatch(changes, payload) ==
    IF changes = <<>> THEN payload
    ELSE LET c == Head(changes)
             next == IF c.op = "remove"
                     THEN [payload EXCEPT ![c.path] = Absent]
                     ELSE [payload EXCEPT ![c.path] = c.value]
         IN ApplyPatch(Tail(changes), next)

\* history(), lines 160-163: the version control information of the persisted
\* document is copied onto the freshly built one before the two are compared.
HistoryCopyVCINone(payload, persistent) ==
    [exists |-> TRUE, payload |-> payload, witnesses |-> <<>>, updates |-> <<>>]

HistoryCopyVCI(payload, persistent) ==
    [exists |-> TRUE, payload |-> payload,
     witnesses |-> persistent.witnesses, updates |-> persistent.updates]

\* history(), line 184: document.updates.append(patch)
HistoryAddPatchPrepend(updates, patch) == <<patch>> \o updates

HistoryAddPatch(updates, patch) == Append1(updates, patch)

\* a comparison that takes every save for a change
PayloadChangedAlways(merged, persistent) == TRUE

\* history(), line 166: document.to_mongo() != persistent_document.to_mongo()
PayloadChanged(merged, persistent) == ToMongo(merged) # ToMongo(persistent)

\* history(document, crawl): returns the document to persist, new_document,
\* changes_observed and the patch (NoPatch when none was generated).
NoPatch == [none |-> TRUE]

History(pk, payload, crawl_pk, now) ==
    LET persistent == store[pk] IN
    IF ~persistent.exists
    THEN [document |-> [exists |-> TRUE, payload |-> payload,
                        witnesses |-> <<Witness(crawl_pk)>>, updates |-> <<>>],
          new_document |-> TRUE, changes_observed |-> 0, patch |-> NoPatch]
    ELSE LET merged == HistoryCopyVCI(payload, persistent) IN
         IF PayloadChanged(merged, persistent)
         THEN LET changes == MakePatch(merged.payload, persistent.payload)
                  patch == Patch(crawl_pk, changes, now)
              IN [document |-> [merged EXCEPT
                                   !.updates = HistoryAddPatch(merged.updates, patch),
                                   !.witnesses = Append1(merged.witnesses, Witness(crawl_pk))],
                  new_document |-> FALSE, changes_observed |-> Len(changes), patch |-> patch]
         ELSE [document |-> [merged EXCEPT
                                !.witnesses = Append1(merged.witnesses, Witness(crawl_pk))],
               new_document |-> FALSE, changes_observed |-> 0, patch |-> NoPatch]

\* CFM_MAX_AGE, line 20, in ticks of the document clock
CFM_MAX_AGE == 2

\* bfm_model as its comment at line 77 words it: 0 for a new document
bfm_model_per_comment(new_document, changes_observed) ==
    IF new_document THEN 0
    ELSE IF changes_observed = 0 THEN 0
    ELSE 1

\* HistoricDocument.bfm_model, lines 76-86
bfm_model(new_document, changes_observed) ==
    IF new_document THEN 1
    ELSE IF changes_observed = 0 THEN 0
    ELSE 1

\* HistoricDocument.cfm_model, lines 88-103, in units of 1 / CFM_MAX_AGE: the
\* value CFM_MAX_AGE stands for 1. The document is the one just written.
cfm_model(document, new_document, patch) ==
    IF new_document THEN CFM_MAX_AGE
    ELSE IF patch = NoPatch THEN 0
    ELSE LET n == Len(document.witnesses) IN
         IF n < 2 THEN -1   \* witnesses[-2] of a shorter list raises IndexError
         ELSE LET age_div == document.witnesses[n].timestamp
                                 - document.witnesses[n - 1].timestamp
              IN IF age_div < CFM_MAX_AGE THEN age_div ELSE CFM_MAX_AGE

\* HistoricDocument.metrics, lines 63-74
Metrics(h) ==
    [bfm |-> bfm_model(h.new_document, h.changes_observed),
     cfm |-> cfm_model(h.document, h.new_document, h.patch)]

\* HistoricDocument.save(crawl): history(), then the whole document is written.
\* The saves of this specification run one after another (one worker), each
\* at a later time than the one before.
Save(pk, payload, crawl_pk) ==
    /\ SeqSum([i \in 1..Len(DocKeySeq) |-> saves[DocKeySeq[i]]]) < MaxSaves
    /\ LET now == docClock + 1
           h == History(pk, payload, crawl_pk, now)
       IN /\ store' = [store EXCEPT ![pk] = h.document]
          /\ docClock' = now
          /\ lastSave' = [pk |-> pk,
                          payload |-> payload,
                          previous |-> store[pk],
                          new_document |-> h.new_document,
                          changes_observed |-> h.changes_observed,
                          metrics |-> Metrics(h)]
          /\ observed' = IF store[pk].exists
                         THEN [observed EXCEPT
                                  ![pk] = Append1(@, payload # store[pk].payload)]
                         ELSE observed
    /\ saves' = [saves EXCEPT ![pk] = @ + 1]
    /\ UNCHANGED <<importTime, storing, DocOnly>>

\* A worker process is replaced by a new one, which imports the module again.
WorkerRestart ==
    /\ importTime < docClock
    /\ importTime' = docClock
    /\ UNCHANGED <<store, docClock, saves, lastSave, observed, storing, DocOnly>>

NoSave == [pk |-> "none", payload |-> [title |-> "X", score |-> Absent], previous |-> NoDoc,
           new_document |-> FALSE, changes_observed |-> 0, metrics |-> [bfm |-> 0, cfm |-> 0]]

\* the storage-pipeline workers that save at the same time
StorageWorkers == {"w1", "w2"}

NoStoring == [pc |-> "idle", pk |-> "none", h |-> <<>>]
NewStoring == [workers |-> [w \in StorageWorkers |-> NoStoring],
               begun |-> 0,
               reported_new |-> [k \in DocKeys |-> 0]]

\* HistoricDocument.save, line 48: history() looks the persisted document up
\* (lines 140-146) and builds the document to write from what it found.
SaveLookup(w, pk, payload, crawl_pk) ==
    /\ storing.workers[w].pc = "idle"
    /\ storing.begun < MaxSaves
    /\ storing' = [storing EXCEPT
                      !.workers[w] = [pc |-> "write", pk |-> pk,
                                      h |-> History(pk, payload, crawl_pk, docClock)],
                      !.begun = @ + 1]
    /\ UNCHANGED <<store, docClock, importTime, saves, lastSave, observed, DocOnly>>

\* HistoricDocument.save, lines 51-61: the whole document is written under its
\* primary key, whatever is stored there by now, and the summary is returned.
SaveWrite(w) ==
    /\ storing.workers[w].pc = "write"
    /\ LET pk == storing.workers[w].pk
           h == storing.workers[w].h
       IN /\ store' = [store EXCEPT ![pk] = h.document]
          /\ saves' = [saves EXCEPT ![pk] = @ + 1]
          /\ storing' = [storing EXCEPT
                            !.workers[w] = NoStoring,
                            !.reported_new[pk] = IF h.new_document THEN @ + 1 ELSE @]
    /\ UNCHANGED <<docClock, importTime, lastSave, observed, DocOnly>>

IdleDoc ==
    /\ storing = NewStoring
    /\ store = [k \in DocKeys |-> NoDoc]
    /\ docClock = 0
    /\ importTime = 0
    /\ saves = [k \in DocKeys |-> 0]
    /\ lastSave = NoSave
    /\ observed = [k \in DocKeys |-> <<>>]

(***************************************************************************)
(* StaticScheduler, the task dispatcher and the CrawlTask handlers         *)
(***************************************************************************)

\* bounds of the scheduler model
MaxClock == 4
MaxRetries == 1
MaxSnapshots == 1
MaxLost == 1
StepPeriod == 1

TargetOrder == <<"t1", "t2", "t3">>
TargetIds == {TargetOrder[i] : i \in 1..Len(TargetOrder)}
StepSizes == {1, 2}

\* Python's None, and a value that is set
None == <<>>
Some(v) == <<v>>

\* Target.queued[series.id] of the targets that exist when the scheduler is
\* built: never queued, queued by an earlier crawl of the series (before this
\* crawl started), or queued by an earlier run of this crawl (--continue_crawl).
InitialQueued(started) == {<<>>, <<started - 1>>, <<started>>}

\* the filter compiled in StaticScheduler.__init__: the target matches the
\* crawl's filter and was never queued for the series, or its last queued
\* timestamp is lower than crawl.started.
QueuedBeforeLte(queued, started) == queued = <<>> \/ Last(queued) <= started

QueuedBefore(queued, started) == queued = <<>> \/ Last(queued) < started

Eligible(t) ==
    /\ targets[t].matches
    /\ QueuedBefore(targets[t].queued, sched.started)

\* Target.objects(__raw__=filter).order_by("queued.<series>.-1").limit(step_size):
\* step_size of the eligible targets, or all of them if there are fewer.  The
\* store knows no negative array positions in a path: the component -1 names
\* a field that no target has, every target sorts under the same missing
\* key, and the order among them is the store's choice.
QueryBatches(step_size) ==
    LET elig == {t \in TargetIds : Eligible(t)}
        n == IF Cardinality(elig) < step_size THEN Cardinality(elig) ELSE step_size
    IN {b \in [1..n -> elig] : \A i, j \in 1..n : i < j => b[i] # b[j]}

\* datetime.utcnow() on a worker: the workers' clock is not the scheduler's,
\* and no step reads a token's timestamps back, so the value is left symbolic.
UtcNow == "utcnow"

\* ExecutionToken(crawl=..., stages=...) with the field defaults
NewToken == [persisted |-> TRUE, started |-> None, failed |-> None,
             retries |-> 0, retry_infos |-> <<>>, fail_info |-> None,
             progress |-> 0]

\* ExecutionToken.start(): started = utcnow(), save
TokenStartNoop(tok) == tok

TokenStart(tok) == [tok EXCEPT !.started = Some(UtcNow)]

\* ExecutionToken.retry(info): retries += 1, retry_infos.append(info), save
TokenRetry(tok, info) ==
    [tok EXCEPT !.retries = @ + 1, !.retry_infos = Append1(@, info)]

\* ExecutionToken.fail(info=info): failed = utcnow(), fail_info = info, save
TokenFail(tok, info) ==
    [tok EXCEPT !.failed = Some(UtcNow), !.fail_info = Some(info)]

\* ExecutionToken.remove(): the record is deleted
TokenRemove(tok) == [tok EXCEPT !.persisted = FALSE]

\* the id of the token built for the target the submit loop is at
CurrentTokenId == Len(tasks) + 1

TokenPersisted(id) == id \in DOMAIN tokens /\ tokens[id].persisted

\* the order of the three store/dispatcher calls made for one target in
\* _submit: token.save(), task.apply_async(), target.update(push queued)
SubmitOrderDispatchFirst == <<"dispatch", "token", "mark">>

SubmitOrder == <<"token", "dispatch", "mark">>

SubmitStepAfter(pc) ==
    IF pc = SubmitOrder[1] THEN SubmitOrder[2]
    ELSE IF pc = SubmitOrder[2] THEN SubmitOrder[3]
    ELSE "next_target"

\* the number of tasks in a state
CountTasks(state) == Cardinality({i \in DOMAIN tasks : tasks[i].state = state})

TotalRetries == SeqSum([i \in DOMAIN tasks |-> tasks[i].retries])
TotalSnapshots == SeqSum([i \in DOMAIN tasks |-> tasks[i].snapshots])

\* StaticScheduler._targets_total(): the targets matching the crawl's filter
TargetsTotal == Cardinality({t \in TargetIds : targets[t].matches})

\* StaticScheduler._display(): the first call builds the progress bars, later
\* calls update them; a bar is finished once an update finds completed >= total.
Display(progress, c) ==
    IF ~progress.created
    THEN [created |-> TRUE, total |-> TargetsTotal,
          scheduled_done |-> FALSE, processed_done |-> FALSE]
    ELSE [progress EXCEPT
             !.scheduled_done = @ \/ c.targets_scheduled >= progress.total,
             !.processed_done = @ \/ c.targets_finished + c.targets_failed >= progress.total]

\* AbstractScheduler._wait() called at time now: the new last_step
WaitLastStep(last_step, now) ==
    IF last_step = None THEN now
    ELSE IF now >= last_step[1] + StepPeriod THEN now
    ELSE last_step[1] + StepPeriod

\* StaticScheduler._allocate(), one turn of its loop: query the next batch;
\* an empty result ends the generator, otherwise the batch is yielded.
Allocate ==
    /\ sched.pc = "allocate"
    /\ IF QueryBatches(sched.step_size) = {<<>>}
       THEN /\ sched' = [sched EXCEPT !.pc = "finish"]
            /\ UNCHANGED emitted
       ELSE \E b \in QueryBatches(sched.step_size) :
               /\ sched' = [sched EXCEPT !.pc = "submit", !.batch = b, !.idx = 1]
               /\ emitted' = Append1(emitted, b)
    /\ UNCHANGED <<clock, crawl, memCrawl, targets, tokens, tasks, SchedOnly>>

\* _submit, line 97: timestamp = datetime.now()
SubmitBegin ==
    /\ sched.pc = "submit"
    /\ \E now \in {clock, clock + 1} :
          /\ now <= MaxClock
          /\ clock' = now
          /\ sched' = [sched EXCEPT !.pc = SubmitOrder[1], !.timestamp = Some(now)]
    /\ UNCHANGED <<crawl, memCrawl, targets, tokens, tasks, emitted, SchedOnly>>

\* where the submit loop goes after the last call made for one target
AfterTarget(pc) ==
    IF SubmitStepAfter(pc) # "next_target" THEN [sched EXCEPT !.pc = SubmitStepAfter(pc)]
    ELSE IF sched.idx = Len(sched.batch) THEN [sched EXCEPT !.pc = "update"]
    ELSE [sched EXCEPT !.pc = SubmitOrder[1], !.idx = @ + 1]

\* _submit, lines 116-119: token = ExecutionToken(...); token.save()
SaveToken ==
    /\ sched.pc = "token"
    /\ tokens' = [i \in (DOMAIN tokens) \cup {CurrentTokenId} |->
                     IF i = CurrentTokenId THEN NewToken ELSE tokens[i]]
    /\ sched' = AfterTarget("token")
    /\ UNCHANGED <<clock, crawl, memCrawl, targets, tasks, emitted, SchedOnly>>

\* _submit, lines 122-131: the crawl task is cloned with the token's id and
\* handed to the dispatcher.
Dispatch ==
    /\ sched.pc = "dispatch"
    /\ tasks' = Append1(tasks, [target |-> sched.batch[sched.idx],
                                token |-> CurrentTokenId,
                                state |-> "queued",
                                retries |-> 0,
                                snapshots |-> 0])
    /\ sched' = AfterTarget("dispatch")
    /\ UNCHANGED <<clock, crawl, memCrawl, targets, tokens, emitted, SchedOnly>>

\* a timestamp read from a clock that runs behind the one of crawl.started
QueuedStampOtherClock(timestamp) == timestamp - 2

\* _submit, lines 134-136: the value pushed to queued is the timestamp of
\* line 97, read with datetime.now() like the default of Crawl.started
QueuedStamp(timestamp) == timestamp

\* _submit, lines 134-136: target.update(push__queued__<series>=timestamp)
MarkQueued ==
    /\ sched.pc = "mark"
    /\ targets' = [targets EXCEPT
                      ![sched.batch[sched.idx]].queued =
                          Append1(@, QueuedStamp(sched.timestamp[1]))]
    /\ sched' = AfterTarget("mark")
    /\ UNCHANGED <<clock, crawl, memCrawl, tokens, tasks, emitted, SchedOnly>>

\* the scheduler's copy of the crawl written back whole
CrawlSaveFromMemory(stored, in_memory, n) ==
    [in_memory EXCEPT !.targets_scheduled = @ + n]

\* _submit, lines 139-145: crawl.update(inc__targets_scheduled=n) is one
\* $inc of the stored document; the scheduler's copy takes no part in it.
CrawlUpdateInc(stored, in_memory, n) ==
    [stored EXCEPT !.targets_scheduled = @ + n]

\* _submit, lines 139-145: crawl.update(inc__targets_scheduled=len(targets))
CrawlUpdate ==
    /\ sched.pc = "update"
    /\ crawl' = CrawlUpdateInc(crawl, memCrawl, Len(sched.batch))
    /\ sched' = [sched EXCEPT !.pc = "reload"]
    /\ UNCHANGED <<clock, memCrawl, targets, tokens, tasks, emitted, SchedOnly>>

\* start(), lines 134-137: crawl.reload(), log the status, _display()
ReloadDisplay ==
    /\ sched.pc \in {"reload", "drain_reload"}
    /\ memCrawl' = crawl
    /\ sched' = [sched EXCEPT
                    !.pc = IF sched.pc = "reload" THEN "wait" ELSE "drain_wait",
                    !.progress = Display(sched.progress, crawl)]
    /\ UNCHANGED <<clock, crawl, targets, tokens, tasks, emitted, SchedOnly>>

\* AbstractScheduler._wait()
Wait ==
    /\ sched.pc \in {"wait", "drain_wait"}
    /\ \E now \in {clock, clock + 1} :
          LET step == WaitLastStep(sched.last_step, now) IN
          /\ step <= MaxClock
          /\ clock' = step
          /\ sched' = [sched EXCEPT
                          !.pc = IF sched.pc = "wait" THEN "allocate" ELSE "drain",
                          !.last_step = Some(step)]
    /\ UNCHANGED <<crawl, memCrawl, targets, tokens, tasks, emitted, SchedOnly>>

\* start(), lines 140-141: self.crawl.finished = datetime.now(); _display()
Finish ==
    /\ sched.pc = "finish"
    /\ memCrawl' = [memCrawl EXCEPT !.finished = Some(clock)]
    /\ sched' = [sched EXCEPT !.pc = "drain",
                              !.progress = Display(sched.progress, memCrawl)]
    /\ UNCHANGED <<clock, crawl, targets, tokens, tasks, emitted, SchedOnly>>

\* start(), line 142: while not self.progress.finished
Drain ==
    /\ sched.pc = "drain"
    /\ sched' = [sched EXCEPT
                    !.pc = IF sched.progress.scheduled_done /\ sched.progress.processed_done
                           THEN "done" ELSE "drain_reload"]
    /\ UNCHANGED <<clock, crawl, memCrawl, targets, tokens, tasks, emitted, SchedOnly>>

\* The dispatcher loses a submitted task before any worker received it.
TaskLost(i) ==
    /\ tasks[i].state = "queued"
    /\ tasks[i].retries = 0
    /\ CountTasks("lost") < MaxLost
    /\ tasks' = [tasks EXCEPT ![i].state = "lost"]
    /\ UNCHANGED <<clock, crawl, memCrawl, targets, sched, tokens, emitted, SchedOnly>>

\* CrawlTask.before_start: token.start()
BeforeStart(i) ==
    /\ tasks[i].state = "queued"
    /\ TokenPersisted(tasks[i].token)
    /\ tokens' = [tokens EXCEPT ![tasks[i].token] = TokenStart(@)]
    /\ tasks' = [tasks EXCEPT ![i].state = "running"]
    /\ UNCHANGED <<clock, crawl, memCrawl, targets, sched, emitted, SchedOnly>>

\* multi_stage_crawler, lines 47-50: after every step of a stage the progress
\* is written to the token.
ProgressSnapshot(i) ==
    /\ tasks[i].state = "running"
    /\ TokenPersisted(tasks[i].token)
    /\ TotalSnapshots < MaxSnapshots
    /\ tokens' = [tokens EXCEPT ![tasks[i].token].progress = @ + 1]
    /\ tasks' = [tasks EXCEPT ![i].snapshots = @ + 1]
    /\ UNCHANGED <<clock, crawl, memCrawl, targets, sched, emitted, SchedOnly>>

\* CrawlTask.on_retry: token.retry(info), inc targets_retried; the dispatcher
\* queues the task again.
OnRetry(i) ==
    /\ tasks[i].state = "running"
    /\ TokenPersisted(tasks[i].token)
    /\ TotalRetries < MaxRetries
    /\ tokens' = [tokens EXCEPT ![tasks[i].token] = TokenRetry(@, "einfo")]
    /\ crawl' = [crawl EXCEPT !.targets_retried = @ + 1]
    /\ tasks' = [tasks EXCEPT ![i].state = "queued", ![i].retries = @ + 1]
    /\ UNCHANGED <<clock, memCrawl, targets, sched, emitted, SchedOnly>>

\* CrawlTask.on_failure: token.fail(info), inc targets_failed
OnFailure(i) ==
    /\ tasks[i].state = "running"
    /\ TokenPersisted(tasks[i].token)
    /\ tokens' = [tokens EXCEPT ![tasks[i].token] = TokenFail(@, "einfo")]
    /\ crawl' = [crawl EXCEPT !.targets_failed = @ + 1]
    /\ tasks' = [tasks EXCEPT ![i].state = "failure"]
    /\ UNCHANGED <<clock, memCrawl, targets, sched, emitted, SchedOnly>>

\* CrawlTask.on_success: token.remove(), inc targets_finished
OnSuccess(i) ==
    /\ tasks[i].state = "running"
    /\ TokenPersisted(tasks[i].token)
    /\ tokens' = [tokens EXCEPT ![tasks[i].token] = TokenRemove(@)]
    /\ crawl' = [crawl EXCEPT !.targets_finished = @ + 1]
    /\ tasks' = [tasks EXCEPT ![i].state = "success"]
    /\ UNCHANGED <<clock, memCrawl, targets, sched, emitted, SchedOnly>>

NoProgress == [created |-> FALSE, total |-> 0,
               scheduled_done |-> FALSE, processed_done |-> FALSE]

\* The state in which StaticScheduler.start() is called: the crawl was
\* created at `clock` (Crawl.started defaults to datetime.now), the targets
\* exist, and the targets an earlier run of this crawl queued have been
\* scheduled and processed.
StartSched(populations, step_sizes) ==
    /\ clock = 1
    /\ targets \in populations
    /\ LET done == Cardinality({t \in TargetIds : targets[t].queued = <<clock>>}) IN
       crawl = [started |-> clock, finished |-> None,
                targets_scheduled |-> done, targets_finished |-> done,
                targets_failed |-> 0, targets_retried |-> 0]
    /\ memCrawl = crawl
    /\ \E n \in step_sizes :
          sched = [pc |-> "allocate", step_size |-> n, started |-> clock,
                   batch |-> <<>>, idx |-> 0, timestamp |-> None,
                   last_step |-> None, progress |-> NoProgress]
    /\ tokens = <<>>
    /\ tasks = <<>>
    /\ emitted = <<>>

\* every population of the three targets
AllPopulations == [TargetIds -> [matches : BOOLEAN, queued : InitialQueued(1)]]

\* one target never queued, one queued by an earlier crawl of the series, and
\* one the crawl's filter does not match
MixedPopulation ==
    {[t \in TargetIds |-> [matches |-> t # "t3",
                           queued |-> IF t = "t2" THEN <<0>> ELSE <<>>]]}

IdleSched ==
    /\ clock = 1
    /\ targets = [t \in TargetIds |-> [matches |-> FALSE, queued |-> <<>>]]
    /\ crawl = [started |-> 1, finished |-> None,
                targets_scheduled |-> 0, targets_finished |-> 0,
                targets_failed |-> 0, targets_retried |-> 0]
    /\ memCrawl = crawl
    /\ sched = [pc |-> "idle", step_size |-> 1, started |-> 1,
                batch |-> <<>>, idx |-> 0, timestamp |-> None,
                last_step |-> None, progress |-> NoProgress]
    /\ tokens = <<>>
    /\ tasks = <<>>
    /\ emitted = <<>>

(***************************************************************************)
(* StaticResourceAllocator driven by a submitting consumer                 *)
(***************************************************************************)

\* the filter clause {"queued.<series>.-1": {"$lt": crawl.started}}: the path
\* component -1 is a field name to the store, not the last position of the
\* list, and a list of timestamps has no such field: no target matches it.
PathMinusOneLt(queued, started) == FALSE

\* StaticResourceAllocator.__init__, lines 17-27: the compiled filter
AllocatorEligible(t) ==
    /\ targets[t].matches
    /\ \/ targets[t].queued = <<>>
       \/ PathMinusOneLt(targets[t].queued, sched.started)

\* lines 35-39: the query of one turn of the loop
AllocatorQuery(step_size) ==
    LET elig == {t \in TargetIds : AllocatorEligible(t)}
        n == IF Cardinality(elig) < step_size THEN Cardinality(elig) ELSE step_size
    IN {b \in [1..n -> elig] : \A i, j \in 1..n : i < j => b[i] # b[j]}

\* StaticResourceAllocator.allocate, one turn of its loop (lines 31-45)
AllocatorPull ==
    /\ sched.pc = "alloc_pull"
    /\ IF AllocatorQuery(sched.step_size) = {<<>>}
       THEN /\ sched' = [sched EXCEPT !.pc = "alloc_done"]
            /\ UNCHANGED emitted
       ELSE \E b \in AllocatorQuery(sched.step_size) :
               /\ sched' = [sched EXCEPT !.pc = "alloc_submit", !.batch = b]
               /\ emitted' = Append1(emitted, b)
    /\ UNCHANGED <<clock, crawl, memCrawl, targets, tokens, tasks, SchedOnly>>

\* the consumer of the generator submits the batch before it pulls the next
\* one: every target of the batch is marked queued with the submit timestamp
\* (AbstractScheduler._submit, lines 97 and 134-136).
ConsumerSubmit ==
    /\ sched.pc = "alloc_submit"
    /\ \E now \in {clock, clock + 1} :
          /\ now <= MaxClock
          /\ clock' = now
          /\ targets' = [t \in TargetIds |->
                IF t \in {sched.batch[i] : i \in DOMAIN sched.batch}
                THEN [targets[t] EXCEPT !.queued = Append1(@, now)]
                ELSE targets[t]]
    /\ sched' = [sched EXCEPT !.pc = "alloc_pull"]
    /\ UNCHANGED <<crawl, memCrawl, tokens, tasks, emitted, SchedOnly>>

\* the allocator is built for a crawl that has just been created
StartAllocator(populations, step_sizes) ==
    /\ clock = 1
    /\ targets \in populations
    /\ crawl = [started |-> clock, finished |-> None,
                targets_scheduled |-> 0, targets_finished |-> 0,
                targets_failed |-> 0, targets_retried |-> 0]
    /\ memCrawl = crawl
    /\ \E n \in step_sizes :
          sched = [pc |-> "alloc_pull", step_size |-> n, started |-> clock,
                   batch |-> <<>>, idx |-> 0, timestamp |-> None,
                   last_step |-> None, progress |-> NoProgress]
    /\ tokens = <<>>
    /\ tasks = <<>>
    /\ emitted = <<>>

(***************************************************************************)
(* multi_stage_crawler, StageProcessor, Spider and the terminators         *)
(***************************************************************************)

\* the source serves at most MaxRequests pages per target and stage
MaxRequests == 2
\* the longest list of terminators configured for a stage
MaxTerminators == 2

\* the kwargs the terminators are configured with
StaticLimit == 5
OverlapLimit == 3
Budget == 100
BudgetInc == 10
BudgetDec == 1
BudgetModel == "bfm"

\* pipeline.name of the two pipelines
DataStorage == "data_storage"
TargetDiscovery == "target_discovery"
PipelineNames == {DataStorage, TargetDiscovery}
PipelineLists == {<<>>, <<DataStorage>>, <<DataStorage, TargetDiscovery>>}

TerminatorNames == {"static", "overlap", "budget"}
TerminatorLists == UNION {[1..n -> TerminatorNames] : n \in 0..MaxTerminators}

TERMINATOR_KEY_TARGET_NOT_FOUND == "target_not_found"
TERMINATOR_KEY_TARGET_EXHAUSTED == "target_exhausted"

Range(s) == {s[i] : i \in DOMAIN s}

\* the statistics data_storage_pipeline returns for the documents of one
\* response (of its four counters the two the terminators read)
NoDocs == [processed_documents |-> 0, new_documents |-> 0]
DocBatches == {[processed_documents |-> 4, new_documents |-> 2],
               [processed_documents |-> 6, new_documents |-> 3]}

\* RequestResult(**task.get()) for the page-th request of a stage: the source
\* may report the target missing, and names a next page or not.
RequestResults(page) ==
    {[target_not_found |-> nf,
      subsequent_kwargs |-> sk,
      cost |-> 1,
      gain |-> IF nf THEN 0 ELSE d.processed_documents,
      docs |-> IF nf THEN NoDocs ELSE d] :
        nf \in BOOLEAN,
        sk \in IF page >= MaxRequests THEN {{}} ELSE {{}, {"page"}},
        d \in DocBatches}

NoResult == [target_not_found |-> FALSE, subsequent_kwargs |-> {},
             cost |-> 0, gain |-> 0, docs |-> NoDocs]

\* StageResult(): the defaults of a stage's progress
StageResult == [cost |-> 0, gain |-> 0, pipeline_results |-> <<>>, terminated_by |-> {}]

\* a Stage as the scheduler hands it to the crawl task
NewStage(c) == [pipelines |-> c.pipelines, terminators |-> c.terminators,
                callbacks |-> c.callbacks, progress |-> StageResult]

\* the callbacks of a stage: none, or the target monitor
TargetMonitor == "target_monitor"
CallbackLists == {<<>>, <<TargetMonitor>>}

StageConfigs == [pipelines : PipelineLists, terminators : TerminatorLists,
                 callbacks : CallbackLists]

\* the stages that follow the first one in a crawl of two stages
FollowUpConfigs ==
    {[pipelines |-> <<DataStorage, TargetDiscovery>>, terminators |-> <<"static">>,
      callbacks |-> <<TargetMonitor>>],
     [pipelines |-> <<DataStorage>>, terminators |-> <<>>, callbacks |-> <<>>]}

Jobs == {<<NewStage(c)>> : c \in StageConfigs}
          \cup {<<NewStage(c), NewStage(d)>> : c \in StageConfigs, d \in FollowUpConfigs}

\* PipelineResult.__add__ on the statistics: values under a shared key add up
PipelineResultAdd(a, b) ==
    [k \in (DOMAIN a) \cup (DOMAIN b) |->
        IF k \in DOMAIN a /\ k \in DOMAIN b THEN a[k] + b[k]
        ELSE IF k \in DOMAIN a THEN a[k] ELSE b[k]]

\* dict.update on two dicts of pipeline results: the later result replaces
\* the earlier one
CombineDictsByUpdate(i, j) ==
    [p \in (DOMAIN i) \cup (DOMAIN j) |-> IF p \in DOMAIN j THEN j[p] ELSE i[p]]

\* combine_dicts_by_addition on two dicts of pipeline results
CombineDictsByAddition(i, j) ==
    [p \in (DOMAIN i) \cup (DOMAIN j) |->
        IF p \in DOMAIN i /\ p \in DOMAIN j THEN PipelineResultAdd(i[p], j[p])
        ELSE IF p \in DOMAIN i THEN i[p] ELSE j[p]]

\* what a pipeline returns for a request result
PipelineOutput(p, request_result) ==
    IF p = DataStorage THEN request_result.docs
    ELSE [new_targets |-> 1, checked_targets |-> 1]

\* the outcome of calling a terminator: it returns 0 or 1, or the lookup
\* pipeline_results[data_storage_pipeline.name].statistics[key] raises
Returned(v) == [raised |-> FALSE, value |-> v]
KeyError == [raised |-> TRUE, value |-> 0]

HasStatistic(progress, key) ==
    /\ DataStorage \in DOMAIN progress.pipeline_results
    /\ key \in DOMAIN progress.pipeline_results[DataStorage]

Statistic(progress, key) == progress.pipeline_results[DataStorage][key]

static_terminator(progress) ==
    IF ~HasStatistic(progress, "processed_documents") THEN KeyError
    ELSE Returned(IF Statistic(progress, "processed_documents") >= StaticLimit
                  THEN 1 ELSE 0)

overlap_terminator(progress) ==
    IF ~HasStatistic(progress, "new_documents")
          \/ ~HasStatistic(progress, "processed_documents")
    THEN KeyError
    ELSE Returned(IF Statistic(progress, "processed_documents")
                        - Statistic(progress, "new_documents") >= OverlapLimit
                  THEN 1 ELSE 0)

\* a comparison that triggers while budget is left
SpentBelow(spent_budget, acquired_budget) == spent_budget < acquired_budget

\* budget_terminator, line 40: if spent_budget > acquired_budget
SpentExceeds(spent_budget, acquired_budget) == spent_budget > acquired_budget

\* budget_terminator, lines 28-32: budget + statistics[model] * budget_inc
AcquiredBudget(statistics, kwargs) ==
    kwargs.budget + statistics[kwargs.model] * kwargs.budget_inc

\* budget_terminator, lines 33-38: statistics["processed_documents"] * budget_dec
SpentBudget(statistics, kwargs) ==
    statistics["processed_documents"] * kwargs.budget_dec

\* budget_terminator on the statistics of the data-storage result, called
\* with the given kwargs (lines 28-43)
BudgetTerminatorOn(statistics, kwargs) ==
    IF kwargs.model \notin DOMAIN statistics
          \/ "processed_documents" \notin DOMAIN statistics
    THEN KeyError
    ELSE Returned(IF SpentExceeds(SpentBudget(statistics, kwargs),
                                  AcquiredBudget(statistics, kwargs))
                  THEN 1 ELSE 0)

\* the defaults of budget_terminator's kwargs, lines 17-20
BudgetDefaults == [budget |-> Budget, budget_inc |-> BudgetInc,
                   budget_dec |-> BudgetDec, model |-> BudgetModel]

budget_terminator(progress) ==
    IF DataStorage \notin DOMAIN progress.pipeline_results THEN KeyError
    ELSE BudgetTerminatorOn(progress.pipeline_results[DataStorage], BudgetDefaults)

\* terminator_sig.apply().get()
Terminate(name, progress) ==
    CASE name = "static"  -> static_terminator(progress)
      [] name = "overlap" -> overlap_terminator(progress)
      [] name = "budget"  -> budget_terminator(progress)

\* Spider.__init__
NewSpider == [target_exhausted |-> FALSE, target_not_found |-> FALSE]

\* Spider.__next__, line 31: a request is made only while both flags are clear
SpiderMayRequestIgnoringNotFound(spider) == ~spider.target_exhausted

SpiderMayRequest(spider) == ~spider.target_exhausted /\ ~spider.target_not_found

\* Spider.__next__, lines 42-48: the flags after a result arrived
SpiderFlags(spider, r) ==
    [target_not_found |-> spider.target_not_found \/ r.target_not_found,
     target_exhausted |-> spider.target_exhausted \/ r.subsequent_kwargs = {}]

\* the natural-termination keys recorded next to a terminator's result
NaturalTermination(spider) ==
    (IF spider.target_not_found THEN {TERMINATOR_KEY_TARGET_NOT_FOUND} ELSE {})
      \cup (IF spider.target_exhausted THEN {TERMINATOR_KEY_TARGET_EXHAUSTED} ELSE {})

\* what is recorded about the step in progress
NoStep == [not_found |-> FALSE, invoked |-> {}, yields |-> 0,
           evaluated |-> <<>>, closed |-> FALSE]

\* the locals of a crawl task that is at its first stage
NewRun(pc) == [pc |-> pc, i |-> 1, spider |-> NewSpider, request_result |-> NoResult,
               pending |-> {}, returned |-> <<>>, k |-> 0, outcome |-> "running"]

\* multi_stage_crawler, line 38, and process(), line 126: the processor of
\* stage run.i and its spider are built.
StageStart ==
    /\ run.pc = "stage"
    /\ run' = [run EXCEPT !.pc = "next", !.spider = NewSpider]
    /\ UNCHANGED <<job, trace, StageOnly>>

\* Spider.__next__ is called: it sends a request (lines 31-36) or raises
\* StopIteration (lines 59-60), which ends the loop of process().
SpiderNext ==
    /\ run.pc = "next"
    /\ IF SpiderMayRequest(run.spider)
       THEN /\ run' = [run EXCEPT !.pc = "request"]
            /\ trace' = [trace EXCEPT !.requests[run.i] = @ + 1]
       ELSE /\ run' = [run EXCEPT !.pc = "callbacks"]
            /\ trace' = [trace EXCEPT !.stopped[run.i] = TRUE]
    /\ UNCHANGED <<job, StageOnly>>

\* Spider.__next__, lines 39-57: the result arrives, the flags are set and the
\* result is returned; process(), lines 131-135: cost and gain are added and
\* a not-found result skips the pipelines.
SpiderReceive ==
    /\ run.pc = "request"
    /\ \E r \in RequestResults(trace.requests[run.i]) :
          /\ run' = [run EXCEPT !.spider = SpiderFlags(run.spider, r),
                                !.request_result = r,
                                !.pending = {}, !.returned = <<>>, !.k = 0,
                                !.pc = IF r.target_not_found THEN "yield"
                                       ELSE "pipelines"]
          /\ job' = [job EXCEPT ![run.i].progress.cost = @ + r.cost,
                                ![run.i].progress.gain = @ + r.gain]
          /\ trace' = [trace EXCEPT
                !.emitted[run.i] = @ + 1,
                !.final[run.i] =
                    IF @ = 0 /\ (r.target_not_found \/ r.subsequent_kwargs = {})
                    THEN trace.emitted[run.i] + 1 ELSE @,
                !.step = [NoStep EXCEPT !.not_found = r.target_not_found]]
    /\ UNCHANGED StageOnly

\* __execute_pipelines, lines 29-52: without pipelines the result is {} and
\* the aggregate stays as it is; otherwise the group is sent to the workers.
ExecutePipelines ==
    /\ run.pc = "pipelines"
    /\ IF job[run.i].pipelines = <<>>
       THEN /\ job' = [job EXCEPT ![run.i].progress.pipeline_results =
                           CombineDictsByAddition(@, <<>>)]
            /\ run' = [run EXCEPT !.pc = "yield"]
            /\ UNCHANGED trace
       ELSE /\ run' = [run EXCEPT !.pc = "join",
                                  !.pending = Range(job[run.i].pipelines)]
            /\ trace' = [trace EXCEPT !.step.invoked = Range(job[run.i].pipelines)]
            /\ UNCHANGED job
    /\ UNCHANGED StageOnly

\* a worker finishes pipeline p of the group
PipelineReturn(p) ==
    /\ run.pc = "join"
    /\ p \in run.pending
    /\ run' = [run EXCEPT
                  !.pending = @ \ {p},
                  !.returned = [q \in (DOMAIN @) \cup {p} |->
                                   IF q = p THEN PipelineOutput(p, run.request_result)
                                   ELSE @[q]]]
    /\ UNCHANGED <<job, trace, StageOnly>>

\* promise.join() returns once no pipeline of the group is outstanding
JoinReadyEarly(pending) == TRUE

JoinReady(pending) == pending = {}

\* __execute_pipelines, lines 55-67, and process(), lines 143-146
Join ==
    /\ run.pc = "join"
    /\ JoinReady(run.pending)
    /\ job' = [job EXCEPT ![run.i].progress.pipeline_results =
                   CombineDictsByAddition(@, run.returned)]
    /\ run' = [run EXCEPT !.pc = "yield"]
    /\ trace' = [trace EXCEPT !.stored[run.i] =
                     IF DataStorage \in DOMAIN run.returned
                     THEN [processed_documents |->
                               @.processed_documents
                                 + run.returned[DataStorage].processed_documents,
                           new_documents |->
                               @.new_documents + run.returned[DataStorage].new_documents]
                     ELSE @]
    /\ UNCHANGED StageOnly

\* process(), line 148: the progress is yielded; multi_stage_crawler, lines
\* 42-50, reports it and writes it to the token before the generator resumes.
Yield ==
    /\ run.pc = "yield"
    /\ run' = [run EXCEPT !.pc = "terminators", !.k = 1]
    /\ trace' = [trace EXCEPT !.yields[run.i] = @ + 1, !.step.yields = @ + 1]
    /\ UNCHANGED <<job, StageOnly>>

\* __execute_terminators, one turn of its loop (lines 99-116): terminator k is
\* applied; a raised error leaves the task (CrawlTask.on_failure), a truthy
\* result is recorded, and then the natural-termination keys are.
ExecuteTerminator ==
    /\ run.pc = "terminators"
    /\ run.k <= Len(job[run.i].terminators)
    /\ LET name == job[run.i].terminators[run.k]
           res == Terminate(name, job[run.i].progress)
       IN
       /\ trace' = [trace EXCEPT
                       !.step.evaluated = Append1(@, [name |-> name,
                                                      raised |-> res.raised,
                                                      value |-> res.value]),
                       !.step.closed = res.raised]
       /\ IF res.raised
          THEN /\ run' = [run EXCEPT !.pc = "failed", !.outcome = "failure"]
               /\ UNCHANGED job
          ELSE /\ run' = [run EXCEPT !.k = @ + 1]
               /\ job' = [job EXCEPT ![run.i].progress.terminated_by =
                              @ \cup (IF res.value = 1 THEN {name} ELSE {})
                                \cup NaturalTermination(run.spider)]
    /\ UNCHANGED StageOnly

\* process(), lines 153-155: after the last terminator the loop is left if
\* terminated_by holds a True, otherwise the spider is asked again.
TerminatorsDone ==
    /\ run.pc = "terminators"
    /\ run.k > Len(job[run.i].terminators)
    /\ run' = [run EXCEPT !.pc = IF job[run.i].progress.terminated_by # {}
                                 THEN "callbacks" ELSE "next"]
    /\ trace' = [trace EXCEPT !.step.closed = TRUE]
    /\ UNCHANGED <<job, StageOnly>>

\* a group that holds every callback twice
CallbackGroupTwice(callbacks) == callbacks \o callbacks

\* __execute_callbacks, lines 71-90: the signatures of the group that is
\* sent, none when the stage has no callbacks
CallbackGroup(callbacks) == callbacks

\* process(), line 158, and __execute_callbacks, line 93: the callbacks are
\* sent off with apply_async and their results are not asked for;
\* multi_stage_crawler then goes on to the next stage or returns
\* (CrawlTask.on_success).
ExecuteCallbacks ==
    /\ run.pc = "callbacks"
    /\ IF run.i < Len(job)
       THEN /\ run' = [NewRun("stage") EXCEPT !.i = run.i + 1]
            /\ trace' = [trace EXCEPT
                            !.ended[run.i] = TRUE, !.step = NoStep,
                            !.dispatched[run.i] = @ \o CallbackGroup(job[run.i].callbacks),
                            !.running[run.i] = @ + Len(CallbackGroup(job[run.i].callbacks))]
       ELSE /\ run' = [run EXCEPT !.pc = "returned", !.outcome = "success"]
            /\ trace' = [trace EXCEPT
                            !.ended[run.i] = TRUE,
                            !.dispatched[run.i] = @ \o CallbackGroup(job[run.i].callbacks),
                            !.running[run.i] = @ + Len(CallbackGroup(job[run.i].callbacks))]
    /\ UNCHANGED <<job, StageOnly>>

\* a worker finishes a callback of stage i
CallbackReturn(i) ==
    /\ i \in DOMAIN job
    /\ trace.running[i] > 0
    /\ trace' = [trace EXCEPT !.running[i] = @ - 1]
    /\ UNCHANGED <<job, run, StageOnly>>

NewTrace(n) == [requests |-> [i \in 1..n |-> 0], emitted |-> [i \in 1..n |-> 0],
                yields |-> [i \in 1..n |-> 0], final |-> [i \in 1..n |-> 0],
                stopped |-> [i \in 1..n |-> FALSE], ended |-> [i \in 1..n |-> FALSE],
                stored |-> [i \in 1..n |-> NoDocs],
                dispatched |-> [i \in 1..n |-> <<>>], running |-> [i \in 1..n |-> 0],
                step |-> NoStep]

\* a worker received the crawl task with one of the jobs as its stages
StartTask(jobs) ==
    /\ job \in jobs
    /\ run = NewRun("stage")
    /\ trace = NewTrace(Len(job))

IdleStage ==
    /\ job = <<>>
    /\ run = NewRun("idle")
    /\ trace = NewTrace(0)

(***************************************************************************)
(* target_discovery_pipeline on concurrent workers                         *)
(***************************************************************************)

\* the kwargs the crawled documents can name, and the workers running the
\* pipeline at the same time
DiscoveredKwargs == {"p:en", "q:en", "r:en"}
Workers == {"w1", "w2"}

\* targets_kwargs after line 78: the discovered kwargs without duplicates, in
\* the order in which the worker's set yields them
KwargsLists ==
    {s \in UNION {[1..n -> DiscoveredKwargs] : n \in 1..Cardinality(DiscoveredKwargs)} :
        \A i, j \in DOMAIN s : i # j => s[i] # s[j]}

NewDiscovery(pc, kwargs_list) ==
    [pc |-> pc, targets_kwargs |-> kwargs_list, idx |-> 1, targets |-> <<>>,
     pos |-> 1, inserted |-> {}, new_targets |-> None, failed |-> FALSE]

\* lines 82-94, one turn of the loop (target_defaults is the default, one
\* empty dict): a Target is built unless one with these kwargs exists.
CheckExists(w) ==
    LET d == discovery[w]
        kw == d.targets_kwargs[d.idx]
        found == IF targetStore[kw] = 0 THEN Append1(d.targets, kw) ELSE d.targets
    IN
    /\ d.pc = "check"
    /\ discovery' = [discovery EXCEPT
          ![w].targets = found,
          ![w].idx = @ + 1,
          ![w].pc = IF d.idx < Len(d.targets_kwargs) THEN "check"
                    ELSE IF found = <<>> THEN "return" ELSE "insert"]
    /\ UNCHANGED <<targetStore, DiscOnly>>

\* lines 97-101, Target.objects.insert(targets): the store writes the
\* documents of the ordered bulk one by one; the unique index on kwargs
\* rejects a duplicate, which ends the bulk with a BulkWriteError that the
\* pipeline swallows.
InsertNext(w) ==
    LET d == discovery[w]
        kw == d.targets[d.pos]
    IN
    /\ d.pc = "insert"
    /\ IF targetStore[kw] > 0
       THEN /\ discovery' = [discovery EXCEPT ![w].pc = "return"]
            /\ UNCHANGED targetStore
       ELSE /\ targetStore' = [targetStore EXCEPT ![kw] = @ + 1]
            /\ discovery' = [discovery EXCEPT
                  ![w].inserted = @ \cup {kw},
                  ![w].pos = @ + 1,
                  ![w].pc = IF d.pos < Len(d.targets) THEN "insert" ELSE "return"]
    /\ UNCHANGED DiscOnly

\* lines 104-109: the PipelineResult is returned
ReturnResult(w) ==
    /\ discovery[w].pc = "return"
    /\ discovery' = [discovery EXCEPT
          ![w].pc = "done",
          ![w].new_targets = Some(Len(discovery[w].targets))]
    /\ UNCHANGED <<targetStore, DiscOnly>>

\* every worker received a request result and starts its pipeline run on a
\* store that holds none of the discovered targets yet
StartDiscovery ==
    /\ targetStore = [kw \in DiscoveredKwargs |-> 0]
    /\ discovery \in [Workers -> {NewDiscovery("check", s) : s \in KwargsLists}]

IdleDisc ==
    /\ targetStore = [kw \in DiscoveredKwargs |-> 0]
    /\ discovery = [w \in Workers |-> NewDiscovery("idle", <<>>)]

(***************************************************************************)
(* combine_dicts_by_addition (utils/pipeline.py)                           *)
(***************************************************************************)

\* Python values: None, a number, a dict from keys to values
PyNone == [t |-> "none", v |-> 0, d |-> <<>>]
PyNum(n) == [t |-> "num", v |-> n, d |-> <<>>]
PyDict(f) == [t |-> "dict", v |-> 0, d |-> f]

\* the truth value Python gives a value: None, 0 and the empty dict are false
Truthy(x) ==
    IF x.t = "none" THEN FALSE
    ELSE IF x.t = "num" THEN x.v # 0
    ELSE DOMAIN x.d # {}

\* line 45: i[key] or j[key]
PyOr(a, b) == IF Truthy(a) THEN a ELSE b

\* line 48: i[key] + j[key] for two numbers
PyAdd(a, b) == PyNum(a.v + b.v)

\* combine_dicts_by_addition(i, j), lines 10-54
RECURSIVE combine_dicts_by_addition(_, _)
combine_dicts_by_addition(i, j) ==
    IF i.t = "none" /\ j.t = "none" THEN PyNone
    ELSE IF i.t = "none" THEN j
    ELSE IF j.t = "none" THEN i
    ELSE LET both == (DOMAIN i.d) \cap (DOMAIN j.d)
             passed == {k \in both : i.d[k].t = "none" /\ j.d[k].t = "none"}
         IN PyDict([k \in ((DOMAIN i.d) \cup (DOMAIN j.d)) \ passed |->
                IF k \in both
                THEN IF i.d[k].t = "dict" /\ j.d[k].t = "dict"
                     THEN combine_dicts_by_addition(i.d[k], j.d[k])
                     ELSE IF i.d[k].t = "none" \/ j.d[k].t = "none"
                     THEN PyOr(i.d[k], j.d[k])
                     ELSE PyAdd(i.d[k], j.d[k])
                ELSE IF k \in DOMAIN i.d THEN i.d[k]
                ELSE j.d[k]])

\* the well-formed operands: None, or a map that may hold a number or None
\* under "count" and a map of the same kind, or None, under "nested"
LeafNumbers == {0, 1}
Leaves == {PyNone} \cup {PyNum(n) : n \in LeafNumbers}
NestedDicts == {PyDict(<<>>)} \cup {PyDict([k \in {"changes"} |-> l]) : l \in Leaves}
DictsOver(count_values, nested_values) ==
    {PyDict([k \in {"count", "nested"} |-> IF k = "count" THEN c ELSE n]) :
        c \in count_values, n \in nested_values}
    \cup {PyDict([k \in {"count"} |-> c]) : c \in count_values}
    \cup {PyDict([k \in {"nested"} |-> n]) : n \in nested_values}
    \cup {PyDict(<<>>)}
Operands == {PyNone} \cup DictsOver(Leaves, {PyNone} \cup NestedDicts)

\* the map that holds None under key k and nothing else
NoneUnder(k) == PyDict([x \in {k} |-> PyNone])

NoSums == [pc |-> "idle", ij |-> PyNone, ji |-> PyNone, ij_k |-> PyNone, i_jk |-> PyNone,
           i_none |-> PyNone, none_i |-> PyNone, i_keynone |-> <<>>, keynone_i |-> <<>>]

\* i + j and j + i, as the data-storage pipeline and the stage processor add
\* the statistics and metrics of two results
AddPair ==
    /\ sums.pc = "pair"
    /\ sums' = [sums EXCEPT
                   !.pc = "triple",
                   !.ij = combine_dicts_by_addition(operands[1], operands[2]),
                   !.ji = combine_dicts_by_addition(operands[2], operands[1])]
    /\ UNCHANGED <<operands, SumOnly>>

\* (i + j) + k and i + (j + k)
AddTriple ==
    /\ sums.pc = "triple"
    /\ sums' = [sums EXCEPT
                   !.pc = "none",
                   !.ij_k = combine_dicts_by_addition(
                                combine_dicts_by_addition(operands[1], operands[2]),
                                operands[3]),
                   !.i_jk = combine_dicts_by_addition(
                                operands[1],
                                combine_dicts_by_addition(operands[2], operands[3]))]
    /\ UNCHANGED <<operands, SumOnly>>

\* i + None and None + i, with None as the whole operand and with None as
\* the value under one key of i
AddNone ==
    /\ sums.pc = "none"
    /\ LET i == operands[1] IN
       sums' = [sums EXCEPT
                   !.pc = "done",
                   !.i_none = combine_dicts_by_addition(i, PyNone),
                   !.none_i = combine_dicts_by_addition(PyNone, i),
                   !.i_keynone = [k \in DOMAIN i.d |->
                                     combine_dicts_by_addition(i, NoneUnder(k))],
                   !.keynone_i = [k \in DOMAIN i.d |->
                                     combine_dicts_by_addition(NoneUnder(k), i)]]
    /\ UNCHANGED <<operands, SumOnly>>

StartSums ==
    /\ operands \in [1..3 -> Operands]
    /\ sums = [NoSums EXCEPT !.pc = "pair"]

IdleSum ==
    /\ operands = <<>>
    /\ sums = NoSums

\* PipelineResult(weight, statistics, metrics), lines 9-13
PipelineResult(weight, statistics, metrics) ==
    [weight |-> weight, statistics |-> statistics, metrics |-> metrics]

\* (weight or 0), line 24
WeightOrZero(w) == IF Truthy(w) THEN w.v ELSE 0

\* PipelineResult.__add__, lines 19-27
PipelineResult__add__(self, other) ==
    PipelineResult(
        IF Truthy(self.weight) \/ Truthy(other.weight)
        THEN PyNum(WeightOrZero(self.weight) + WeightOrZero(other.weight))
        ELSE PyNone,
        combine_dicts_by_addition(self.statistics, other.statistics),
        combine_dicts_by_addition(self.metrics, other.metrics))

\* PipelineResult.__radd__, lines 30-34; `other` is None or a PipelineResult
PipelineResult__radd__(self, other) ==
    IF other = PyNone THEN self ELSE PipelineResult__add__(self, other)

\* the results a pipeline can return: data_storage_pipeline starts its weight
\* at 0 and adds document.weight() per document (lines 62, 87), a pipeline
\* that sets no weight leaves the default None
Weights == {PyNone} \cup {PyNum(n) : n \in {0, 1, 2}}
StatisticsDicts == {PyDict(<<>>)} \cup
    {PyDict([k \in {"processed_documents"} |-> PyNum(n)]) : n \in LeafNumbers}
MetricsDicts == {PyDict(<<>>), PyDict([k \in {"bfm"} |-> PyNum(1)])}
PipelineResults ==
    {PipelineResult(w, st, m) : w \in Weights, st \in StatisticsDicts, m \in MetricsDicts}

\* self + other and other + self
ResultAdd ==
    /\ sums.pc = "add"
    /\ sums' = [sums EXCEPT
                   !.pc = "radd",
                   !.ij = PipelineResult__add__(operands[1], operands[2]),
                   !.ji = PipelineResult__add__(operands[2], operands[1])]
    /\ UNCHANGED <<operands, SumOnly>>

\* None + self, the first step of sum() over results, and other + self
\* resolved through __radd__
ResultRadd ==
    /\ sums.pc = "radd"
    /\ sums' = [sums EXCEPT
                   !.pc = "done",
                   !.none_i = PipelineResult__radd__(operands[1], PyNone),
                   !.i_none = PipelineResult__radd__(operands[1], operands[2])]
    /\ UNCHANGED <<operands, SumOnly>>

StartResults ==
    /\ operands \in [1..2 -> PipelineResults]
    /\ sums = [NoSums EXCEPT !.pc = "add"]

(***************************************************************************)
(* budget_terminator applied after every step of a stage                   *)
(***************************************************************************)

\* the most documents the steps of the stage process
MaxProcessed == 5

\* the kwargs a stage configures its budget terminator with; the model names
\* the entry of the statistics that is read
BudgetKwargs == [budget : {1, 3}, budget_inc : {0, 2}, budget_dec : {0, 1, 2},
                 model : {BudgetModel, "new_documents"}]

NotCalled == [raised |-> FALSE, value |-> 0]

NewBudgetRun(kwargs) ==
    [kwargs |-> kwargs,
     statistics |-> [processed_documents |-> 0, new_documents |-> 0],
     calls |-> 0,
     result |-> NotCalled,
     previous |-> [statistics |-> [processed_documents |-> 0, new_documents |-> 0],
                   result |-> NotCalled]]

\* process(), lines 143-151: the statistics of a step are added to the
\* aggregate and the terminator is applied to the new aggregate
BudgetAfter(processed, new) ==
    LET statistics == [processed_documents |->
                           budgetRun.statistics.processed_documents + processed,
                       new_documents |-> budgetRun.statistics.new_documents + new]
    IN [budgetRun EXCEPT
           !.statistics = statistics,
           !.calls = @ + 1,
           !.result = BudgetTerminatorOn(statistics, budgetRun.kwargs),
           !.previous = [statistics |-> budgetRun.statistics,
                         result |-> budgetRun.result]]

\* a step whose documents were all seen before
StepKnownDocuments(processed) ==
    /\ ~budgetRun.result.raised
    /\ budgetRun.statistics.processed_documents + processed <= MaxProcessed
    /\ budgetRun' = BudgetAfter(processed, 0)
    /\ UNCHANGED BudgetOnly

\* a step that brought new documents
StepNewDocuments(processed, new) ==
    /\ ~budgetRun.result.raised
    /\ new <= processed
    /\ budgetRun.statistics.processed_documents + processed <= MaxProcessed
    /\ budgetRun' = BudgetAfter(processed, new)
    /\ UNCHANGED BudgetOnly

StartBudget == budgetRun \in {NewBudgetRun(k) : k \in BudgetKwargs}

IdleBudget == budgetRun = NewBudgetRun(BudgetDefaults)

(***************************************************************************)
(* UniformResourceAllocator.__recompute_buckets and Bucket                 *)
(***************************************************************************)

\* the most weighted buckets the aggregation returns
MaxBuckets == 3

\* the fields of the Bucket dataclass, bucket.py lines 18-28
BucketFields == {"importance_factor", "lower_bound", "upper_bound", "absolute_size",
                 "path", "allocated_resources", "filter"}

\* the keyword arguments __recompute_buckets passes to Bucket, lines 74-82
RecomputeBucketKwargs == {"path", "importance_factor", "lower_bound", "upper_bound",
                          "absolute_size", "relative_size", "filter"}

\* the keyword arguments of a caller that names fields of the dataclass only
DirectBucketKwargs == {"path", "importance_factor", "lower_bound", "upper_bound",
                       "absolute_size", "filter"}

\* Bucket(**kwargs): the generated __init__ accepts the fields of the
\* dataclass and raises TypeError for any other keyword
NewBucket(kwargs, importance_factor, lower_bound, upper_bound, absolute_size) ==
    IF kwargs \subseteq BucketFields
    THEN [raised |-> "",
          bucket |-> [importance_factor |-> importance_factor,
                      lower_bound |-> lower_bound, upper_bound |-> upper_bound,
                      absolute_size |-> absolute_size,
                      allocated_resources |-> None]]
    ELSE [raised |-> "TypeError", bucket |-> <<>>]

\* Bucket.weight, lines 30-37
BucketWeight(b) == b.importance_factor * b.absolute_size

\* a normalise that overwrites the share of a normalised bucket
BucketNormaliseAgain(b, total_weight) ==
    IF total_weight = 0
    THEN [raised |-> "ZeroDivisionError", bucket |-> b]
    ELSE [raised |-> "",
          bucket |-> [b EXCEPT !.allocated_resources =
                                   Some(<<BucketWeight(b), total_weight>>)]]

\* Bucket.normalise, lines 39-53: the share is the fraction weight /
\* total_weight, kept as <<numerator, denominator>>
BucketNormalise(b, total_weight) ==
    IF b.allocated_resources = None
    THEN IF total_weight = 0
         THEN [raised |-> "ZeroDivisionError", bucket |-> b]
         ELSE [raised |-> "",
               bucket |-> [b EXCEPT !.allocated_resources =
                                        Some(<<BucketWeight(b), total_weight>>)]]
    ELSE [raised |-> "ValueError", bucket |-> b]

\* the buckets the $bucket aggregation returns, lines 39-51: one entry per
\* boundary that holds targets, in ascending order, and the default bucket
\* "unweighted" after them when a target has no weight
Boundaries == 0..(MaxBuckets - 1)
DbBucketLists ==
    {q \in UNION {[1..n -> [id : Boundaries, count : 1..2]] : n \in 0..MaxBuckets} :
        \A i, j \in DOMAIN q : i < j => q[i].id < q[j].id}
ImportanceFactors == {<<1, 2, 3>>, <<1, 1, 1>>, <<2, 1, 0>>}

\* lines 54-56: the default bucket is taken out of the list
DiscardUnweighted ==
    /\ recompute.pc = "discard"
    /\ recompute' = [recompute EXCEPT !.pc = "build", !.unweighted = FALSE]
    /\ UNCHANGED <<bucket, UniformOnly>>

\* lines 61-83, one turn of the loop: the next Bucket is built
BuildBucket ==
    /\ recompute.pc = "build"
    /\ Len(recompute.buckets) < Len(recompute.db_buckets)
    /\ Len(recompute.buckets) < Len(recompute.importance_factors)
    /\ LET index == Len(recompute.buckets) + 1
           db_bucket == recompute.db_buckets[index]
           upper_bound == IF index + 1 <= Len(recompute.db_buckets)
                          THEN recompute.db_buckets[index + 1].id
                          ELSE MaxBuckets - 1
           made == NewBucket(RecomputeBucketKwargs,
                             recompute.importance_factors[index],
                             db_bucket.id, upper_bound, db_bucket.count)
       IN recompute' = IF made.raised # ""
                       THEN [recompute EXCEPT !.pc = "raised", !.raised = made.raised]
                       ELSE [recompute EXCEPT !.buckets = Append1(@, made.bucket)]
    /\ UNCHANGED <<bucket, UniformOnly>>

\* the loop of lines 61-83 is over
BuildDone ==
    /\ recompute.pc = "build"
    /\ \/ Len(recompute.buckets) >= Len(recompute.db_buckets)
       \/ Len(recompute.buckets) >= Len(recompute.importance_factors)
    /\ recompute' = [recompute EXCEPT !.pc = "normalise"]
    /\ UNCHANGED <<bucket, UniformOnly>>

\* lines 86-89: every bucket is normalised against the sum of the weights of
\* all buckets, and the list is returned
NormaliseAll ==
    /\ recompute.pc = "normalise"
    /\ LET total == SeqSum([i \in DOMAIN recompute.buckets |->
                              BucketWeight(recompute.buckets[i])])
           done == [i \in DOMAIN recompute.buckets |->
                       BucketNormalise(recompute.buckets[i], total)]
       IN recompute' =
            IF \E i \in DOMAIN done : done[i].raised # ""
            THEN [recompute EXCEPT
                     !.pc = "raised",
                     !.raised = done[CHOOSE i \in DOMAIN done : done[i].raised # ""].raised]
            ELSE [recompute EXCEPT
                     !.pc = "returned",
                     !.buckets = [i \in DOMAIN done |-> done[i].bucket]]
    /\ UNCHANGED <<bucket, UniformOnly>>

NewRecompute(pc, db_buckets, unweighted, importance_factors) ==
    [pc |-> pc, db_buckets |-> db_buckets, unweighted |-> unweighted,
     importance_factors |-> importance_factors, buckets |-> <<>>, raised |-> ""]

StartRecompute ==
    recompute \in {NewRecompute("discard", q, u, f) :
                      q \in DbBucketLists, u \in BOOLEAN, f \in ImportanceFactors}

IdleRecompute == recompute = NewRecompute("idle", <<>>, FALSE, <<>>)

\* the most calls made on one Bucket
MaxCalls == 3
\* the largest total weight and step size handed to a Bucket
MaxTotalWeight == 4

Max(a, b) == IF a >= b THEN a ELSE b
Min(a, b) == IF a <= b THEN a ELSE b

\* Python's round() of the fraction n / d: to the nearest integer, a tie to
\* the even one
PyRound(n, d) ==
    LET q == n \div d
        r == n % d
    IN IF 2 * r < d THEN q
       ELSE IF 2 * r > d THEN q + 1
       ELSE IF q % 2 = 0 THEN q ELSE q + 1

\* Bucket.allocate, lines 55-116, on a bucket that holds never_queued
\* targets never queued for the crawl: the error it raises, the number of
\* queries it sends and the number of targets it returns
BucketAllocate(b, never_queued, step_size, min_allocation) ==
    IF b.allocated_resources = None
    THEN [raised |-> "ValueError", queries |-> 0, returned |-> 0]
    ELSE LET share == b.allocated_resources[1]
             allocated == Max(min_allocation, PyRound(step_size * share[1], share[2]))
             first == Min(never_queued, allocated)
             queued == b.absolute_size - never_queued
         IN IF first < allocated
            THEN [raised |-> "", queries |-> 2,
                  returned |-> first + Min(queued, allocated - first)]
            ELSE [raised |-> "", queries |-> 1, returned |-> first]

NewBucketRun(b, never_queued) ==
    [obj |-> b, never_queued |-> never_queued, calls |-> 0, last |-> "",
     arg |-> 0, raised |-> "", before |-> None, queries |-> 0, returned |-> 0]

\* a caller normalises the bucket
NormaliseCall(total_weight) ==
    /\ bucket.calls < MaxCalls
    /\ LET done == BucketNormalise(bucket.obj, total_weight)
       IN bucket' = [bucket EXCEPT
                        !.obj = done.bucket, !.calls = @ + 1, !.last = "normalise",
                        !.arg = total_weight, !.raised = done.raised,
                        !.before = bucket.obj.allocated_resources,
                        !.queries = 0, !.returned = 0]
    /\ UNCHANGED <<recompute, UniformOnly>>

\* a caller asks the bucket for targets
AllocateCall(step_size) ==
    /\ bucket.calls < MaxCalls
    /\ LET done == BucketAllocate(bucket.obj, bucket.never_queued, step_size, 1)
       IN bucket' = [bucket EXCEPT
                        !.calls = @ + 1, !.last = "allocate",
                        !.arg = step_size, !.raised = done.raised,
                        !.before = bucket.obj.allocated_resources,
                        !.queries = done.queries, !.returned = done.returned]
    /\ UNCHANGED <<recompute, UniformOnly>>

\* buckets built with the fields of the dataclass, not yet normalised
StartBucket ==
    bucket \in {NewBucketRun(NewBucket(DirectBucketKwargs, f, 0, 2, size).bucket, never) :
                   f \in 0..2, size \in 1..2, never \in 0..2}

IdleBucket == bucket = NewBucketRun(NewBucket(DirectBucketKwargs, 1, 0, 1, 0).bucket, 0)

IdleUniform == IdleRecompute /\ IdleBucket

(***************************************************************************)
(* SlimTarget.merge                                                        *)
(***************************************************************************)

\* the places that hold a kwargs dict: those of the arguments a and b, the
\* deep copies asdict makes of them, and the copy merge updates
KwargsPlaces == {"a", "b", "asdict_a", "asdict_b", "merged"}

EmptyDict == <<>>

\* d.get(key, default)
DictGet(d, key, default) == IF key \in DOMAIN d THEN d[key] ELSE default

\* a dict.update in which the values already present win
DictUpdateKeep(d, other) ==
    [k \in DOMAIN d \cup DOMAIN other |-> IF k \in DOMAIN d THEN d[k] ELSE other[k]]

\* d.update(other): the values of other win on shared keys
DictUpdate(d, other) ==
    [k \in DOMAIN d \cup DOMAIN other |-> IF k \in DOMAIN other THEN other[k] ELSE d[k]]

\* list(set(tags)): the elements without duplicates, in an order the set
\* implementation decides
ListOfSet(tags) ==
    LET elems == {tags[i] : i \in DOMAIN tags}
    IN {q \in [1..Cardinality(elems) -> elems] :
            \A i, j \in DOMAIN q : i # j => q[i] # q[j]}

\* lines 93-99: asdict(x) of a SlimTarget is a dict with deep copies of its
\* fields, its kwargs in a place of their own; a dict is taken as it is
AsDictFields(x, place) ==
    IF x.kind = "SlimTarget" THEN [x.fields EXCEPT !["kwargs"] = place] ELSE x.fields
AsDictHeap(x, place, heap) ==
    IF x.kind = "SlimTarget"
    THEN [heap EXCEPT ![place] = heap[x.fields["kwargs"]]]
    ELSE heap

\* SlimTarget.merge(a, b), lines 93-114, with the tags in the order `tags`:
\* the error raised, the SlimTarget returned and the dicts afterwards
merge(a, b, heap, tags) ==
    LET da == AsDictFields(a, "asdict_a")
        heap1 == AsDictHeap(a, "asdict_a", heap)
        db == AsDictFields(b, "asdict_b")
        heap2 == AsDictHeap(b, "asdict_b", heap1)
        id == IF DictGet(da, "id", None) # None
              THEN DictGet(da, "id", None) ELSE DictGet(db, "id", None)
        a_kwargs == IF "kwargs" \in DOMAIN da THEN heap2[da["kwargs"]] ELSE EmptyDict
        b_kwargs == IF "kwargs" \in DOMAIN db THEN heap2[db["kwargs"]] ELSE EmptyDict
        \* line 111: kwargs is a copy; line 112: the copy is updated
        heap3 == [heap2 EXCEPT !["merged"] = a_kwargs]
        heap4 == [heap3 EXCEPT !["merged"] = DictUpdate(heap3["merged"], b_kwargs)]
    IN IF /\ DictGet(da, "id", None) # None
          /\ DictGet(db, "id", None) # None
          /\ da["id"] # db["id"]
       THEN [raised |-> "ValueError", result |-> <<>>, heap |-> heap2]
       ELSE [raised |-> "",
             result |-> [id |-> id, tags |-> tags, kwargs |-> "merged"],
             heap |-> heap4]

\* the tags merge may return for a and b, line 110
MergedTags(a, b) ==
    ListOfSet(DictGet(a.fields, "tags", <<>>) \o DictGet(b.fields, "tags", <<>>))

\* SlimTarget.merge(a, b) is called
Merge ==
    /\ ~merging.done
    /\ \E tags \in MergedTags(merging.a, merging.b) :
         LET out == merge(merging.a, merging.b, merging.heap, tags)
         IN merging' = [merging EXCEPT !.done = TRUE, !.raised = out.raised,
                                       !.result = out.result, !.heap = out.heap]
    /\ UNCHANGED <<keyRun, series, TypeOnly>>

\* the values of the fields of a SlimTarget
SlimTargetIds == {None, Some("t1"), Some("t2")}
TagLists == {<<>>, <<"x", "x">>, <<"y", "x">>}
KwargsDicts == {EmptyDict, [k \in {"depth"} |-> 1], [k \in {"depth"} |-> 2],
                [k \in {"lang"} |-> 1], [k \in {"depth", "lang"} |-> 2]}

\* an argument of merge: a SlimTarget, the dict of one, or a dict without
\* any of the fields
MergeArguments(place) ==
    {[kind |-> kind, fields |-> [f \in {"id", "tags", "kwargs"} |->
                                    CASE f = "id" -> id [] f = "tags" -> tags
                                      [] OTHER -> place]] :
        kind \in {"SlimTarget", "dict"}, id \in SlimTargetIds, tags \in TagLists}
    \cup {[kind |-> "dict", fields |-> EmptyDict]}

NoHeap == [p \in KwargsPlaces |-> EmptyDict]

NewMerging(a, b, heap) ==
    [a |-> a, b |-> b, before |-> heap, heap |-> heap,
     done |-> FALSE, raised |-> "", result |-> <<>>]

\* two arguments with dicts of their own, or one object passed as both
StartMerge ==
    \/ \E a \in MergeArguments("a"), b \in MergeArguments("b"),
          ka \in KwargsDicts, kb \in KwargsDicts :
         /\ "kwargs" \notin DOMAIN a.fields => ka = EmptyDict
         /\ "kwargs" \notin DOMAIN b.fields => kb = EmptyDict
         /\ merging = NewMerging(a, b, [NoHeap EXCEPT !["a"] = ka, !["b"] = kb])
    \/ \E a \in MergeArguments("a"), ka \in KwargsDicts :
         /\ "kwargs" \notin DOMAIN a.fields => ka = EmptyDict
         /\ merging = NewMerging(a, a, [NoHeap EXCEPT !["a"] = ka])

IdleMerging == merging = NewMerging([kind |-> "dict", fields |-> EmptyDict],
                                    [kind |-> "dict", fields |-> EmptyDict], NoHeap)

(***************************************************************************)
(* mongodb_key_sanitizer                                                   *)
(***************************************************************************)

\* the longest string sanitized
MaxKeyLen == 3

\* the characters of the strings: the three the sanitizer looks for, the
\* one it writes, and another one
NUL == "NUL"
KeyChars == {".", "$", NUL, ":", "a"}
KeyStrings == UNION {[1..n -> KeyChars] : n \in 0..MaxKeyLen}

\* s.replace(old, new) for a character old and a string new
RECURSIVE StrReplace(_, _, _)
StrReplace(s, old, new) ==
    IF s = <<>> THEN <<>>
    ELSE (IF Head(s) = old THEN new ELSE <<Head(s)>>) \o StrReplace(Tail(s), old, new)

\* a strip that takes one leading character away at most
LStripOne(s, c) == IF s # <<>> /\ Head(s) = c THEN Tail(s) ELSE s

\* s.lstrip(c): every leading c is taken away
RECURSIVE LStrip(_, _)
LStrip(s, c) == IF s # <<>> /\ Head(s) = c THEN LStrip(Tail(s), c) ELSE s

\* mongodb_key_sanitizer(s), lines 34-44
mongodb_key_sanitizer(s) ==
    LStrip(StrReplace(StrReplace(s, ".", <<":">>), NUL, <<>>), "$")

NewKey(s) == [s |-> s, calls |-> 0, once |-> <<>>, twice |-> <<>>]

\* the string is sanitized
Sanitize ==
    /\ keyRun.calls = 0
    /\ keyRun' = [keyRun EXCEPT !.calls = 1, !.once = mongodb_key_sanitizer(keyRun.s)]
    /\ UNCHANGED <<merging, series, TypeOnly>>

\* the sanitized string is sanitized again
SanitizeAgain ==
    /\ keyRun.calls = 1
    /\ keyRun' = [keyRun EXCEPT !.calls = 2, !.twice = mongodb_key_sanitizer(keyRun.once)]
    /\ UNCHANGED <<merging, series, TypeOnly>>

StartKey == keyRun \in {NewKey(s) : s \in KeyStrings}

IdleKey == keyRun = NewKey(<<>>)

(***************************************************************************)
(* Series.set_filter and Series.get_filter                                 *)
(***************************************************************************)

\* the most keys in one dict of a filter
MaxFilterKeys == 2

\* the filters: dicts with string keys, MongoDB's operators among them,
\* over a number or a dict of the same kind
FilterKeys == {"$or", "$and", "or", "key1"}
FilterLeaves == {PyNum(1)}
FilterDictsOver(values) ==
    {PyDict(f) : f \in UNION {[K -> values] :
                     K \in {S \in SUBSET FilterKeys : Cardinality(S) <= MaxFilterKeys}}}
Filters == FilterDictsOver(FilterLeaves \cup FilterDictsOver(FilterLeaves))

\* the pieces of a JSON text: braces, a key with its colon, a number
JsonOpen == [t |-> "{", s |-> "", n |-> 0]
JsonClose == [t |-> "}", s |-> "", n |-> 0]
JsonKey(k) == [t |-> "key", s |-> k, n |-> 0]
JsonNumber(n) == [t |-> "num", s |-> "", n |-> n]

\* the order in which the keys of a dict are written
KeyOrder == <<"$and", "$or", "key1", "or">>

\* the JSON text of a value: a number as it is, a dict as its members
\* between braces, each key as given
RECURSIVE JsonEncode(_)
RECURSIVE JsonEncodeMembers(_, _)
JsonEncode(x) ==
    IF x.t = "num" THEN <<JsonNumber(x.v)>>
    ELSE <<JsonOpen>> \o JsonEncodeMembers(x.d, 1) \o <<JsonClose>>
JsonEncodeMembers(d, i) ==
    IF i > Len(KeyOrder) THEN <<>>
    ELSE (IF KeyOrder[i] \in DOMAIN d
          THEN <<JsonKey(KeyOrder[i])>> \o JsonEncode(d[KeyOrder[i]])
          ELSE <<>>) \o JsonEncodeMembers(d, i + 1)

\* a filter with the keys $or and $and renamed to or and and, at any depth
EscapedKey(k) == IF k = "$or" THEN "or" ELSE IF k = "$and" THEN "and" ELSE k
RECURSIVE EscapeKeys(_)
EscapeKeys(x) ==
    IF x.t # "dict" THEN x
    ELSE PyDict([k \in {EscapedKey(j) : j \in DOMAIN x.d} |->
                    EscapeKeys(x.d[CHOOSE j \in DOMAIN x.d : EscapedKey(j) = k])])

\* a json.dumps that writes the filter with its operators renamed
json_dumps_escaped(obj) == JsonEncode(EscapeKeys(obj))

\* json.dumps(obj), line 57
json_dumps(obj) == JsonEncode(obj)

\* the value a JSON text starts with and the text after it; ok is FALSE
\* when the text does not start with a value
RECURSIVE JsonDecode(_)
RECURSIVE JsonDecodeMembers(_, _)
JsonDecode(text) ==
    IF text = <<>> THEN [ok |-> FALSE, v |-> PyNone, rest |-> <<>>]
    ELSE IF Head(text).t = "num"
         THEN [ok |-> TRUE, v |-> PyNum(Head(text).n), rest |-> Tail(text)]
    ELSE IF Head(text).t = "{" THEN JsonDecodeMembers(Tail(text), <<>>)
    ELSE [ok |-> FALSE, v |-> PyNone, rest |-> <<>>]
JsonDecodeMembers(text, members) ==
    IF text = <<>> THEN [ok |-> FALSE, v |-> PyNone, rest |-> <<>>]
    ELSE IF Head(text).t = "}"
         THEN [ok |-> TRUE, v |-> PyDict(members), rest |-> Tail(text)]
    ELSE IF Head(text).t = "key"
         THEN LET member == JsonDecode(Tail(text))
              IN IF member.ok
                 THEN JsonDecodeMembers(
                          member.rest,
                          [k \in DOMAIN members \cup {Head(text).s} |->
                              IF k = Head(text).s THEN member.v ELSE members[k]])
                 ELSE member
    ELSE [ok |-> FALSE, v |-> PyNone, rest |-> <<>>]

\* json.loads(s), line 51: the value of the text, or JSONDecodeError
json_loads(text) ==
    LET parsed == JsonDecode(text)
    IN IF parsed.ok /\ parsed.rest = <<>>
       THEN [raised |-> "", v |-> parsed.v]
       ELSE [raised |-> "JSONDecodeError", v |-> PyNone]

\* a Series as constructed: the filter field holds str(), the empty text
NewSeries == [pc |-> "new", given |-> PyNone, filter |-> <<>>, got |-> PyNone, raised |-> ""]

\* Series.set_filter(filter) for a dict, lines 56-57
SetFilter(filter) ==
    /\ series.pc = "new"
    /\ series' = [series EXCEPT !.pc = "set", !.given = filter,
                                 !.filter = json_dumps(filter)]
    /\ UNCHANGED <<merging, keyRun, TypeOnly>>

\* a str argument, and the JSON texts given as one
PyStr(text) == [t |-> "str", v |-> 0, d |-> text]
FilterTexts == {<<>>, <<JsonOpen>>, <<JsonOpen, JsonClose>>,
                <<JsonOpen, JsonKey("or"), JsonNumber(1), JsonClose>>}

\* Series.set_filter(filter) for a str, lines 58-59
SetFilterText(text) ==
    /\ series.pc = "new"
    /\ series' = [series EXCEPT !.pc = "set", !.given = PyStr(text), !.filter = text]
    /\ UNCHANGED <<merging, keyRun, TypeOnly>>

\* Series.get_filter(), lines 48-51
GetFilter ==
    /\ series.pc \in {"new", "set"}
    /\ LET loaded == json_loads(series.filter)
       IN series' = [series EXCEPT !.pc = "got", !.got = loaded.v,
                                   !.raised = loaded.raised]
    /\ UNCHANGED <<merging, keyRun, TypeOnly>>

IdleSeries == series = NewSeries



(***************************************************************************)
(* Spider                                                                  *)
(***************************************************************************)

\* the most requests one spider sends
MaxSpiderRequests == 3

\* the kwargs of a target and the subsequent_kwargs a result may carry
SpiderTargetKwargs == {[k \in {"lang"} |-> 1], [k \in {"lang", "page"} |-> 1]}
SubsequentKwargs == {EmptyDict, [k \in {"page"} |-> 1], [k \in {"page"} |-> 2],
                     [k \in {"cursor"} |-> 1], [k \in {"page", "cursor"} |-> 2]}

\* parameters that are the latest subsequent_kwargs alone
ReplaceParameters(parameters, subsequent_kwargs) == subsequent_kwargs

\* Spider.__next__, lines 52-54: parameters_for_next_request.update(**subsequent_kwargs)
UpdateParameters(parameters, subsequent_kwargs) == DictUpdate(parameters, subsequent_kwargs)

\* Spider.__init__, lines 19-24; parameters_for_next_request is the kwargs
\* dict of the target itself
NewSpiderRun(kwargs) ==
    [initial |-> kwargs, parameters |-> kwargs,
     target_exhausted |-> FALSE, target_not_found |-> FALSE,
     requests |-> <<>>, results |-> <<>>, stopped |-> FALSE]

\* Spider.__next__, lines 31-57: a request is sent with the parameters, its
\* result sets the flags, and the parameters are updated if neither is set
SpiderCall(target_not_found, subsequent_kwargs) ==
    /\ ~spiderRun.stopped
    /\ Len(spiderRun.requests) < MaxSpiderRequests
    /\ ~spiderRun.target_exhausted /\ ~spiderRun.target_not_found
    /\ LET exhausted == subsequent_kwargs = EmptyDict
       IN spiderRun' = [spiderRun EXCEPT
             !.requests = Append1(@, spiderRun.parameters),
             !.results = Append1(@, [target_not_found |-> target_not_found,
                                     subsequent_kwargs |-> subsequent_kwargs]),
             !.target_not_found = target_not_found,
             !.target_exhausted = exhausted,
             !.parameters = IF ~exhausted /\ ~target_not_found
                            THEN UpdateParameters(@, subsequent_kwargs) ELSE @]
    /\ UNCHANGED <<monitored, pairing, LateOnly>>

\* Spider.__next__, lines 59-60: StopIteration
SpiderStop ==
    /\ ~spiderRun.stopped
    /\ spiderRun.target_exhausted \/ spiderRun.target_not_found
    /\ spiderRun' = [spiderRun EXCEPT !.stopped = TRUE]
    /\ UNCHANGED <<monitored, pairing, LateOnly>>

StartSpider == spiderRun \in {NewSpiderRun(k) : k \in SpiderTargetKwargs}

IdleSpider == spiderRun = NewSpiderRun(EmptyDict)

(***************************************************************************)
(* target_monitor_callback                                                 *)
(***************************************************************************)

\* the most times the target is submitted
MaxSubmissions == 2

\* every task sends a callback per stage at most; the callbacks are
\* numbered as they are sent and the stamp of a callback is its number
MaxCallbacks == 2 * MaxSubmissions

\* the stages of the crawl
MonitorStages == {<<"s1">>, <<"s1", "s2">>}
StageNames == {"s1", "s2"}

\* the progress with which stage i of the t-th task ends: the callback only
\* carries it to the store, so every stage run has a progress of its own
StageProgress(t, i) == [cost |-> 2 * (t - 1) + i, gain |-> t]

\* Statistic(), target.py lines 26-44 (of its fields those the callback
\* writes for every stage)
NewStatistic == [cost |-> 0, gain |-> 0, result |-> [cost |-> 0, gain |-> 0],
                 cost_history |-> <<>>, gain_history |-> <<>>, result_history |-> <<>>]

HistoricValue(value, timestamp) == [value |-> value, timestamp |-> timestamp]

\* an update that sets the current values and pushes nothing
TargetUpdateSetOnly(target, update) ==
    [target EXCEPT
        !.statistics[update.stage].cost = update.cost,
        !.statistics[update.stage].gain = update.gain,
        !.statistics[update.stage].result = update.result]

\* Target.objects(id=...).update(**update), line 101, with the queries of
\* lines 56-65 and 91-98: one update of the document that sets the current
\* values and pushes one entry to each history and to processed
TargetUpdate(target, update) ==
    [target EXCEPT
        !.statistics[update.stage].cost = update.cost,
        !.statistics[update.stage].gain = update.gain,
        !.statistics[update.stage].result = update.result,
        !.statistics[update.stage].cost_history =
            Append1(@, HistoricValue(update.cost, update.timestamp)),
        !.statistics[update.stage].gain_history =
            Append1(@, HistoricValue(update.gain, update.timestamp)),
        !.statistics[update.stage].result_history =
            Append1(@, HistoricValue(update.result, update.timestamp)),
        !.processed = Append1(@, update.timestamp)]

NewMonitored(stages, with_callback) ==
    [stages |-> stages, with_callback |-> with_callback,
     target |-> [queued |-> <<>>, processed |-> <<>>,
                 statistics |-> [st \in StageNames |-> NewStatistic]],
     submit |-> "idle", tasks |-> <<>>, callbacks |-> {}, sent |-> 0,
     ran |-> [st \in StageNames |-> <<>>]]

\* AbstractScheduler._submit, line 131: the crawl task of the target is sent
SubmitTarget ==
    /\ monitored.submit = "idle"
    /\ Len(monitored.tasks) < MaxSubmissions
    /\ monitored' = [monitored EXCEPT !.submit = "mark", !.tasks = Append1(@, 1)]
    /\ UNCHANGED <<spiderRun, pairing, LateOnly>>

\* AbstractScheduler._submit, lines 134-136: the target is marked as queued
MarkTargetQueued ==
    /\ monitored.submit = "mark"
    /\ monitored' = [monitored EXCEPT
                        !.submit = "idle",
                        !.target.queued = Append1(@, Len(monitored.tasks))]
    /\ UNCHANGED <<spiderRun, pairing, LateOnly>>

\* multi_stage_crawler, lines 34-40, and StageProcessor.process, line 158:
\* task t ends its current stage with a progress and sends the callback of
\* the stage, if it has one; final_stage is handed to the callback
StageEnds(t) ==
    /\ t \in DOMAIN monitored.tasks
    /\ monitored.tasks[t] <= Len(monitored.stages)
    /\ LET i == monitored.tasks[t]
           name == monitored.stages[i]
       IN monitored' = [monitored EXCEPT
             !.tasks[t] = i + 1,
             !.sent = IF name \in monitored.with_callback THEN @ + 1 ELSE @,
             !.callbacks =
                 IF name \in monitored.with_callback
                 THEN @ \cup {[id |-> monitored.sent + 1, stage |-> name,
                               progress |-> StageProgress(t, i),
                               final_stage |-> i = Len(monitored.stages)]}
                 ELSE @]
    /\ UNCHANGED <<spiderRun, pairing, LateOnly>>

\* target_monitor_callback, lines 36-101: the timestamp is taken, the
\* queries are collected from the stage the callback was sent with, and the
\* one update is sent to the store.  Nothing but line 101 reads or writes
\* what another callback or the scheduler writes.
CallbackUpdate(id) ==
    /\ \E c \in monitored.callbacks :
          /\ c.id = id
          /\ LET update == [stage |-> c.stage, cost |-> c.progress.cost,
                            gain |-> c.progress.gain, result |-> c.progress,
                            timestamp |-> c.id]
             IN monitored' = [monitored EXCEPT
                   !.target = TargetUpdate(@, update),
                   !.callbacks = @ \ {c},
                   !.ran[c.stage] = Append1(@, update)]
    /\ UNCHANGED <<spiderRun, pairing, LateOnly>>

StartMonitor ==
    monitored \in {NewMonitored(stages, with_callback) :
                      stages \in MonitorStages,
                      with_callback \in {{"s1", "s2"}, {"s2"}}}

IdleMonitor == monitored = NewMonitored(<<>>, {})

(***************************************************************************)
(* target_discovery_pipeline, lines 80-101: defaults and discovered kwargs *)
(***************************************************************************)

\* the most kwargs dicts one call discovers
MaxEntries == 2

\* the kwargs dicts the crawled documents can name
DiscoveredEntries == {[k \in {"id"} |-> 1], [k \in {"id"} |-> 2],
                      [k \in {"id", "page"} |-> 1], [k \in {"page"} |-> 2]}

\* targets_kwargs after line 78: no duplicates, in the order of the set
EntryLists ==
    {s \in UNION {[1..n -> DiscoveredEntries] : n \in 1..MaxEntries} :
        \A i, j \in DOMAIN s : i # j => s[i] # s[j]}

\* a target default: a dict with or without the key "kwargs"
TargetDefaults == {[has_kwargs |-> FALSE, kwargs |-> EmptyDict],
                   [has_kwargs |-> TRUE, kwargs |-> [k \in {"lang"} |-> 1]],
                   [has_kwargs |-> TRUE, kwargs |-> [k \in {"page"} |-> 1]]}
TargetDefaultLists == UNION {[1..n -> TargetDefaults] : n \in 1..2}

\* `given` is target_defaults as the caller passed it, `target_defaults` the
\* same list as the loop goes on
NewPairing(defaults, entries) ==
    [given |-> defaults, target_defaults |-> defaults, targets_kwargs |-> entries,
     pos |-> 1, targets |-> <<>>, inserted |-> FALSE]

\* itertools.product(targets_kwargs, target_defaults), line 82: the pairs in
\* the order of the entries, and of the defaults for one entry
PairCount == Len(pairing.targets_kwargs) * Len(pairing.target_defaults)
PairEntry(pos) == ((pos - 1) \div Len(pairing.target_defaults)) + 1
PairDefault(pos) == ((pos - 1) % Len(pairing.target_defaults)) + 1

\* lines 86-94, one turn of the loop.  target_default.copy() is a shallow
\* copy: the copy's "kwargs" is the dict of the default itself, and update()
\* (line 90) changes that dict; a default without "kwargs" gets a new dict.
\* Target(...) converts the dict it is given into a dict of its own.  The
\* store holds no Target with these kwargs (line 93).
MergePair ==
    /\ pairing.pos <= PairCount
    /\ LET e == PairEntry(pairing.pos)
           d == PairDefault(pairing.pos)
           target_default == pairing.target_defaults[d]
           kwargs == DictUpdate(IF target_default.has_kwargs THEN target_default.kwargs
                                ELSE EmptyDict,
                                pairing.targets_kwargs[e])
       IN pairing' = [pairing EXCEPT
             !.target_defaults[d].kwargs = IF target_default.has_kwargs THEN kwargs ELSE @,
             !.targets = Append1(@, [entry |-> e, default |-> d, kwargs |-> kwargs]),
             !.pos = @ + 1]
    /\ UNCHANGED <<spiderRun, monitored, LateOnly>>

\* lines 97-99: Target.objects.insert(targets)
InsertTargets ==
    /\ pairing.pos > PairCount
    /\ ~pairing.inserted
    /\ pairing' = [pairing EXCEPT !.inserted = TRUE]
    /\ UNCHANGED <<spiderRun, monitored, LateOnly>>

StartPairing ==
    pairing \in {NewPairing(d, e) : d \in TargetDefaultLists, e \in EntryLists}

IdlePairing == pairing = NewPairing(<<>>, <<>>)

IdleLate == IdleSpider /\ IdleMonitor /\ IdlePairing

IdleType == IdleMerging /\ IdleKey /\ IdleSeries /\ IdleLate

(***************************************************************************)
(* The static scheduler running to its end beside the workers              *)
(***************************************************************************)

\* target_discovery_pipeline run by a crawl task, lines 93-99: a Target that
\* matches the crawl's filter and was never queued is inserted.  A target
\* whose `matches` is FALSE stands for one the store does not hold yet.
Discover(i) ==
    /\ i \in DOMAIN tasks
    /\ tasks[i].state = "running"
    /\ \E t \in TargetIds :
          /\ ~targets[t].matches
          /\ targets[t].queued = <<>>
          /\ targets' = [targets EXCEPT ![t].matches = TRUE]
    /\ UNCHANGED <<clock, crawl, memCrawl, sched, tokens, tasks, emitted, SchedOnly>>

\* AbstractScheduler._wait() at the horizon of the model's clock: times
\* after MaxClock are not told apart.
WaitAtHorizon ==
    /\ sched.pc \in {"wait", "drain_wait"}
    /\ clock = MaxClock
    /\ sched' = [sched EXCEPT
                    !.pc = IF sched.pc = "wait" THEN "allocate" ELSE "drain",
                    !.last_step = Some(MaxClock)]
    /\ UNCHANGED <<clock, crawl, memCrawl, targets, tokens, tasks, emitted, SchedOnly>>

\* the most tasks one crawl dispatches: one per target
TaskIds == 1..Cardinality(TargetIds)

TaskStarts(i) == i \in DOMAIN tasks /\ BeforeStart(i)
TaskRetries(i) == i \in DOMAIN tasks /\ OnRetry(i)
TaskEnds(i) == i \in DOMAIN tasks /\ (OnSuccess(i) \/ OnFailure(i))

(***************************************************************************)
(* Specifications                                                          *)
(***************************************************************************)

InitDoc == IdleDoc /\ IdleSched /\ IdleStage /\ IdleDisc /\ IdleSum /\ IdleBudget /\ IdleUniform /\ IdleType

NextDoc ==
    \/ \E pk \in DocKeys, payload \in Payloads, crawl_pk \in DocCrawls :
          Save(pk, payload, crawl_pk)
    \/ WorkerRestart

SpecDoc == InitDoc /\ [][NextDoc]_vars

\* the saves of several storage workers, interleaved
InitRace == InitDoc

NextRace ==
    \/ \E w \in StorageWorkers, pk \in DocKeys, payload \in Payloads :
          SaveLookup(w, pk, payload, "C1")
    \/ \E w \in StorageWorkers : SaveWrite(w)

SpecRace == InitRace /\ [][NextRace]_vars

\* the scheduler alone, over every target population and step size
InitSched == StartSched(AllPopulations, StepSizes) /\ IdleDoc /\ IdleStage /\ IdleDisc /\ IdleSum /\ IdleBudget /\ IdleUniform /\ IdleType

SchedulerStep ==
    \/ Allocate
    \/ SubmitBegin
    \/ SaveToken
    \/ Dispatch
    \/ MarkQueued
    \/ CrawlUpdate
    \/ ReloadDisplay
    \/ Wait
    \/ Finish
    \/ Drain

NextSched == SchedulerStep

SpecSched == InitSched /\ [][NextSched]_vars

\* the scheduler, the dispatcher and the workers running the crawl tasks
InitTasks == StartSched(MixedPopulation, StepSizes) /\ IdleDoc /\ IdleStage /\ IdleDisc /\ IdleSum /\ IdleBudget /\ IdleUniform /\ IdleType

NextTasks ==
    \/ SchedulerStep
    \/ \E i \in DOMAIN tasks : TaskLost(i)
    \/ \E i \in DOMAIN tasks : BeforeStart(i)
    \/ \E i \in DOMAIN tasks : ProgressSnapshot(i)
    \/ \E i \in DOMAIN tasks : OnRetry(i)
    \/ \E i \in DOMAIN tasks : OnFailure(i)
    \/ \E i \in DOMAIN tasks : OnSuccess(i)

SpecTasks == InitTasks /\ [][NextTasks]_vars

\* the scheduler and the workers, no task lost: the scheduler process keeps
\* running, a worker takes every queued task, and every running task ends
\* in on_success or on_failure unless it is retried.  One target matches
\* the filter and was never queued, one is not in the store yet, and one
\* the filter does not match.
LivePopulation ==
    {[t \in TargetIds |-> [matches |-> t = "t1",
                           queued |-> IF t = "t3" THEN <<0>> ELSE <<>>]]}

InitLive == StartSched(LivePopulation, StepSizes) /\ IdleDoc /\ IdleStage /\ IdleDisc /\ IdleSum /\ IdleBudget /\ IdleUniform /\ IdleType

NextLive ==
    \/ SchedulerStep
    \/ WaitAtHorizon
    \/ \E i \in TaskIds : TaskStarts(i)
    \/ \E i \in TaskIds : TaskRetries(i)
    \/ \E i \in TaskIds : TaskEnds(i)
    \/ \E i \in TaskIds : Discover(i)

LiveFairness ==
    /\ WF_vars(SchedulerStep \/ WaitAtHorizon)
    /\ \A i \in TaskIds : WF_vars(TaskStarts(i))
    /\ \A i \in TaskIds : WF_vars(TaskEnds(i))

SpecLive == InitLive /\ [][NextLive]_vars /\ LiveFairness

\* the static resource allocator and a consumer that submits every batch
InitAlloc ==
    StartAllocator(AllPopulations, StepSizes) /\ IdleDoc /\ IdleStage /\ IdleDisc /\ IdleSum
        /\ IdleBudget /\ IdleUniform /\ IdleType

NextAlloc ==
    \/ AllocatorPull
    \/ ConsumerSubmit

SpecAlloc == InitAlloc /\ [][NextAlloc]_vars

\* one crawl task working through its stages
InitStage == StartTask(Jobs) /\ IdleDoc /\ IdleSched /\ IdleDisc /\ IdleSum /\ IdleBudget /\ IdleUniform /\ IdleType

NextStage ==
    \/ StageStart
    \/ SpiderNext
    \/ SpiderReceive
    \/ ExecutePipelines
    \/ \E p \in PipelineNames : PipelineReturn(p)
    \/ Join
    \/ Yield
    \/ ExecuteTerminator
    \/ TerminatorsDone
    \/ ExecuteCallbacks
    \/ \E i \in 1..2 : CallbackReturn(i)

SpecStage == InitStage /\ [][NextStage]_vars

\* the discovery pipeline running on all workers at once
InitDisc == StartDiscovery /\ IdleDoc /\ IdleSched /\ IdleStage /\ IdleSum /\ IdleBudget /\ IdleUniform /\ IdleType

NextDisc ==
    \/ \E w \in Workers : CheckExists(w)
    \/ \E w \in Workers : InsertNext(w)
    \/ \E w \in Workers : ReturnResult(w)

SpecDisc == InitDisc /\ [][NextDisc]_vars

\* the additions of combine_dicts_by_addition over every triple of operands
InitSum == StartSums /\ IdleDoc /\ IdleSched /\ IdleStage /\ IdleDisc /\ IdleBudget /\ IdleUniform /\ IdleType

NextSum ==
    \/ AddPair
    \/ AddTriple
    \/ AddNone

SpecSum == InitSum /\ [][NextSum]_vars

\* the additions of PipelineResult over every pair of results
InitResult == StartResults /\ IdleDoc /\ IdleSched /\ IdleStage /\ IdleDisc /\ IdleBudget /\ IdleUniform /\ IdleType

NextResult ==
    \/ ResultAdd
    \/ ResultRadd

SpecResult == InitResult /\ [][NextResult]_vars

\* the budget terminator over the steps of a stage, for every kwargs
InitBudget ==
    StartBudget /\ IdleDoc /\ IdleSched /\ IdleStage /\ IdleDisc /\ IdleSum /\ IdleUniform /\ IdleType

NextBudget ==
    \/ \E processed \in 1..2 : StepKnownDocuments(processed)
    \/ \E processed \in 1..2, new \in 1..2 : StepNewDocuments(processed, new)

SpecBudget == InitBudget /\ [][NextBudget]_vars

\* one recomputation of the buckets of the uniform allocator
InitRecompute ==
    /\ StartRecompute /\ IdleBucket
    /\ IdleDoc /\ IdleSched /\ IdleStage /\ IdleDisc /\ IdleSum /\ IdleBudget /\ IdleType

NextRecompute ==
    \/ DiscardUnweighted
    \/ BuildBucket
    \/ BuildDone
    \/ NormaliseAll

SpecRecompute == InitRecompute /\ [][NextRecompute]_vars

\* the calls a caller makes on one Bucket
InitBucket ==
    /\ StartBucket /\ IdleRecompute
    /\ IdleDoc /\ IdleSched /\ IdleStage /\ IdleDisc /\ IdleSum /\ IdleBudget /\ IdleType

NextBucket ==
    \/ \E total_weight \in 1..MaxTotalWeight : NormaliseCall(total_weight)
    \/ \E step_size \in 1..MaxTotalWeight : AllocateCall(step_size)

SpecBucket == InitBucket /\ [][NextBucket]_vars

\* one call of SlimTarget.merge, for every pair of arguments
InitMerge ==
    /\ StartMerge /\ IdleKey /\ IdleSeries /\ IdleLate /\ IdleUniform
    /\ IdleDoc /\ IdleSched /\ IdleStage /\ IdleDisc /\ IdleSum /\ IdleBudget

NextMerge == Merge

SpecMerge == InitMerge /\ [][NextMerge]_vars

\* a string sanitized twice, for every string
InitKey ==
    /\ StartKey /\ IdleMerging /\ IdleSeries /\ IdleLate /\ IdleUniform
    /\ IdleDoc /\ IdleSched /\ IdleStage /\ IdleDisc /\ IdleSum /\ IdleBudget

NextKey ==
    \/ Sanitize
    \/ SanitizeAgain

SpecKey == InitKey /\ [][NextKey]_vars

\* the filter of a Series set and read
InitSeries ==
    /\ IdleSeries /\ IdleMerging /\ IdleKey /\ IdleLate /\ IdleUniform
    /\ IdleDoc /\ IdleSched /\ IdleStage /\ IdleDisc /\ IdleSum /\ IdleBudget

NextSeries ==
    \/ \E filter \in Filters : SetFilter(filter)
    \/ \E text \in FilterTexts : SetFilterText(text)
    \/ GetFilter

SpecSeries == InitSeries /\ [][NextSeries]_vars

\* the requests of one spider, for every sequence of results
InitSpider ==
    /\ StartSpider /\ IdleMonitor /\ IdlePairing
    /\ IdleMerging /\ IdleKey /\ IdleSeries /\ IdleUniform
    /\ IdleDoc /\ IdleSched /\ IdleStage /\ IdleDisc /\ IdleSum /\ IdleBudget

NextSpider ==
    \/ \E target_not_found \in BOOLEAN, subsequent_kwargs \in SubsequentKwargs :
          SpiderCall(target_not_found, subsequent_kwargs)
    \/ SpiderStop

SpecSpider == InitSpider /\ [][NextSpider]_vars

\* one target submitted by the scheduler, its crawl tasks and their callbacks
InitMonitor ==
    /\ StartMonitor /\ IdleSpider /\ IdlePairing
    /\ IdleMerging /\ IdleKey /\ IdleSeries /\ IdleUniform
    /\ IdleDoc /\ IdleSched /\ IdleStage /\ IdleDisc /\ IdleSum /\ IdleBudget

NextMonitor ==
    \/ SubmitTarget
    \/ MarkTargetQueued
    \/ \E t \in 1..MaxSubmissions : StageEnds(t)
    \/ \E id \in 1..MaxCallbacks : CallbackUpdate(id)

SpecMonitor == InitMonitor /\ [][NextMonitor]_vars

\* one call of target_discovery_pipeline building its Targets
InitPairs ==
    /\ StartPairing /\ IdleSpider /\ IdleMonitor
    /\ IdleMerging /\ IdleKey /\ IdleSeries /\ IdleUniform
    /\ IdleDoc /\ IdleSched /\ IdleStage /\ IdleDisc /\ IdleSum /\ IdleBudget

NextPairs ==
    \/ MergePair
    \/ InsertTargets

SpecPairs == InitPairs /\ [][NextPairs]_vars

(***************************************************************************)
(* Claims about HistoricDocument                                           *)
(***************************************************************************)

\* C2: for every document key, after any sequence of saves run one after
\* another: once the document was saved its witnesses are non-empty,
\* |updates| <= |witnesses| - 1, and |updates| + 1 = |witnesses| exactly when
\* every save after the first one observed a changed payload.
C2_WitnessUpdateInvariant ==
    \A k \in DocKeys :
        saves[k] >= 1 =>
            /\ store[k].exists
            /\ Len(store[k].witnesses) >= 1
            /\ Len(store[k].updates) <= Len(store[k].witnesses) - 1
            /\ (Len(store[k].updates) + 1 = Len(store[k].witnesses))
                  <=> (\A i \in DOMAIN observed[k] : observed[k][i])

\* a document that was saved three times, one of the later saves unchanged
C2_Witness ==
    \E k \in DocKeys :
        /\ saves[k] = 3
        /\ Len(store[k].updates) = 1
        /\ Len(store[k].witnesses) = 3

\* the latest save found a persisted predecessor with another payload
LatestSaveChanged ==
    /\ lastSave.pk \in DocKeys
    /\ lastSave.previous.exists
    /\ lastSave.previous.payload # store[lastSave.pk].payload

TimesEmitted(t) ==
    Cardinality({<<b, i>> \in (DOMAIN emitted) \X (1..Len(TargetOrder)) :
                    i \in DOMAIN emitted[b] /\ emitted[b][i] = t})

\* the number of times target t was queued since the crawl started
TimesQueued(t) ==
    Cardinality({k \in DOMAIN targets[t].queued : targets[t].queued[k] >= sched.started})

\* C1: under the static scheduler, for every target population and step size,
\* every target appears in at most one of the batches emitted for the crawl,
\* no two dispatched crawl tasks carry the same target, and no target is
\* marked queued twice within the crawl (so a target that the crawl had
\* queued before the scheduler was started again is not queued once more).
C1_NoTargetScheduledTwice ==
    /\ \A t \in TargetIds : TimesEmitted(t) <= 1
    /\ \A i, j \in DOMAIN tasks : i # j => tasks[i].target # tasks[j].target
    /\ \A t \in TargetIds : TimesQueued(t) <= 1

\* three batches were emitted, one per target and step, at different times,
\* and the allocator then found nothing left
C1_Witness ==
    /\ Len(emitted) = 3
    /\ Len(tasks) = 3
    /\ sched.pc = "finish"
    /\ \E t \in TargetIds : Last(targets[t].queued) > sched.started

\* C4: in every reachable state each dispatched crawl task that has not
\* succeeded has a persisted token (the token is saved before the task is
\* handed to the dispatcher), and the token of a task the dispatcher lost
\* before any worker received it has `started` unset.
C4_TokenBeforeDispatch ==
    /\ \A i \in DOMAIN tasks :
          tasks[i].state # "success" => TokenPersisted(tasks[i].token)
    /\ \A i \in DOMAIN tasks :
          tasks[i].state = "lost" => tokens[tasks[i].token].started = None

\* one task was lost while the task submitted with it went on to fail
C4_Witness ==
    /\ Len(tasks) = 2
    /\ \E i, j \in DOMAIN tasks :
          /\ tasks[i].state = "lost"
          /\ TokenPersisted(tasks[i].token)
          /\ tasks[j].state = "failure"

Terminal(tok) == ~tok.persisted \/ tok.failed # None

\* the state-machine position of a token
C5_TokenStates ==
    \A i \in DOMAIN tasks :
        LET tok == tokens[tasks[i].token] IN
        TokenPersisted(tasks[i].token) \/ tasks[i].state = "success" =>
        /\ tok.retries > 0 \/ tok.progress > 0 => tok.started # None
        /\ tok.retries = Len(tok.retry_infos)
        /\ tasks[i].state = "success" <=> ~tok.persisted
        /\ tasks[i].state = "failure" <=> tok.failed # None
        /\ tok.failed # None <=> tok.fail_info # None
        /\ ~(~tok.persisted /\ tok.failed # None)
        /\ Terminal(tok) => tok.started # None

\* the steps a token takes
C5_TokenSteps ==
    \A id \in DOMAIN tokens :
        /\ id \in DOMAIN tokens'
        /\ Len(tokens'[id].retry_infos) >= Len(tokens[id].retry_infos)
        /\ SubSeq(tokens'[id].retry_infos, 1, Len(tokens[id].retry_infos))
              = tokens[id].retry_infos
        /\ Terminal(tokens[id]) => tokens'[id] = tokens[id]
        /\ tokens[id].started # None => tokens'[id].started # None

\* C5: every token follows CREATED -> STARTED -> (RETRY)* -> terminal:
\* `started` is set before a retry or a progress snapshot is recorded, the
\* terminal outcome is exactly one of deletion (success) or failed and
\* fail_info set (failure), retry_infos only grows, and no step changes a
\* token after its terminal outcome.
C5_TokenLifecycle == [](C5_TokenStates) /\ [][C5_TokenSteps]_vars

\* a token that was started, retried once, started again and then failed
C5_Witness ==
    \E i \in DOMAIN tasks :
        /\ tasks[i].state = "failure"
        /\ tokens[tasks[i].token].retries = 1
        /\ tokens[tasks[i].token].fail_info # None
        /\ \E j \in DOMAIN tasks : tasks[j].state = "success"

(***************************************************************************)
(* Claims about the spider and the stage processor                         *)
(***************************************************************************)

\* C6: in every stage the spider has sent exactly one request per result it
\* emitted (plus the one in flight); once it emitted a result with
\* target_not_found or without subsequent_kwargs it sends no further request
\* and emits nothing more; and that last result was emitted with the
\* matching flag set on the spider.
C6_OneRequestPerResult ==
    \A i \in DOMAIN job :
        /\ trace.requests[i] =
              trace.emitted[i] + (IF run.i = i /\ run.pc = "request" THEN 1 ELSE 0)
        /\ trace.final[i] # 0 =>
              /\ trace.requests[i] = trace.final[i]
              /\ trace.emitted[i] = trace.final[i]
        /\ run.i = i /\ trace.emitted[i] > 0 =>
              /\ run.request_result.target_not_found =>
                    run.spider.target_not_found /\ trace.final[i] = trace.emitted[i]
              /\ run.request_result.subsequent_kwargs = {} =>
                    run.spider.target_exhausted /\ trace.final[i] = trace.emitted[i]

\* the second result of a stage without terminators reported the target
\* missing while naming a next page; the spider was asked again and stopped
C6_Witness ==
    /\ trace.stopped[1]
    /\ trace.emitted[1] = 2
    /\ trace.requests[1] = 2
    /\ run.request_result.target_not_found
    /\ run.spider.target_not_found

\* C7: a stage sends no request before the loop of every earlier stage has
\* ended, and when a terminator is evaluated in a step no pipeline of the
\* step's group is outstanding: every pipeline of the stage has returned.
C7_StagesInOrderPipelinesJoined ==
    /\ \A i, j \in DOMAIN job :
          i < j /\ (trace.requests[j] > 0 \/ run.i >= j) => trace.ended[i]
    /\ trace.step.evaluated # <<>> =>
          /\ run.pending = {}
          /\ ~trace.step.not_found =>
                DOMAIN run.returned = Range(job[run.i].pipelines)

\* the second stage evaluated its terminator after both of its pipelines
\* had been sent out
C7_Witness ==
    /\ Len(job) = 2
    /\ run.i = 2
    /\ trace.requests[2] > 0
    /\ trace.step.invoked = {DataStorage, TargetDiscovery}
    /\ trace.step.evaluated # <<>>

\* C8: once the terminators of a step are through, all configured
\* terminators have been evaluated, in their order; terminated_by holds an
\* entry for exactly those terminators that returned 1; and no request is
\* sent by a stage whose terminated_by holds an entry.
C8_AllTerminatorsEvaluated ==
    /\ trace.step.closed =>
          /\ [k \in DOMAIN trace.step.evaluated |-> trace.step.evaluated[k].name]
                = job[run.i].terminators
          /\ \A n \in TerminatorNames :
                n \in job[run.i].progress.terminated_by <=>
                    \E k \in DOMAIN trace.step.evaluated :
                        /\ trace.step.evaluated[k].name = n
                        /\ ~trace.step.evaluated[k].raised
                        /\ trace.step.evaluated[k].value = 1
    /\ run.pc = "request" => job[run.i].progress.terminated_by = {}

\* C9: in a step whose request returned target_not_found no pipeline is
\* invoked, the progress is yielded exactly once, no further request is
\* sent by the stage, and the crawl task does not fail.
C9_NotFoundEndsStageQuietly ==
    trace.step.not_found =>
        /\ trace.step.invoked = {}
        /\ trace.step.yields = (IF run.pc = "yield" THEN 0 ELSE 1)
        /\ run.pc # "request"
        /\ run.outcome # "failure"

(***************************************************************************)
(* Claims about target discovery                                           *)
(***************************************************************************)

\* C10: once every worker's pipeline run has returned, the store holds
\* exactly one Target for each kwargs that all workers discovered, and no
\* run has failed.
C10_ExactlyOneTarget ==
    (\A w \in Workers : discovery[w].pc = "done") =>
        /\ \A kw \in DiscoveredKwargs :
              (\A w \in Workers : kw \in Range(discovery[w].targets_kwargs))
                  => targetStore[kw] = 1
        /\ \A w \in Workers : ~discovery[w].failed

\* C11: once a worker's pipeline run has returned, every target of the batch
\* it handed to the bulk insert is in the store: a collision on one target
\* of the batch has not cost another target of the batch its insert.
C11_NoDiscoveryLost ==
    \A w \in Workers :
        discovery[w].pc = "done" =>
            \A kw \in Range(discovery[w].targets) : targetStore[kw] >= 1

\* C12: the new_targets statistic a pipeline run returns is the number of
\* Targets this run inserted into the store.
C12_NewTargetsCountsInserted ==
    \A w \in Workers :
        discovery[w].pc = "done" =>
            discovery[w].new_targets = Some(Cardinality(discovery[w].inserted))

(***************************************************************************)
(* Claims about allocation, pacing and the crawl counters                  *)
(***************************************************************************)

\* the allocation loop has ended
AllocationEnded ==
    sched.pc \in {"alloc_done", "finish", "drain", "drain_reload", "drain_wait", "done"}

\* C13: the static allocation loop emits batches of one to step_size
\* targets, it emits no more batches than there are targets, and once it has
\* ended every target that matches the crawl filter has been queued for this
\* crawl, by a batch of the loop or before the loop started.
C13_StaticDrain ==
    /\ \A b \in DOMAIN emitted :
          Len(emitted[b]) >= 1 /\ Len(emitted[b]) <= sched.step_size
    /\ Len(emitted) <= Cardinality(TargetIds)
    /\ AllocationEnded =>
          \A t \in TargetIds : targets[t].matches => TimesQueued(t) >= 1

\* C14: whenever the scheduler marks a target queued, the timestamp it
\* appends to the target's queued list is not earlier than crawl.started, and
\* every target of an emitted batch that has been marked keeps a last queued
\* timestamp that is not earlier than crawl.started.
C14_QueuedNotBeforeStarted ==
    /\ [][\A t \in TargetIds :
            targets'[t].queued # targets[t].queued =>
                Last(targets'[t].queued) >= crawl'.started]_vars
    /\ [](\A t \in TargetIds :
            (TimesEmitted(t) >= 1 /\ sched.pc \in {"reload", "wait", "allocate", "finish"}) =>
                (targets[t].queued # <<>> /\ Last(targets[t].queued) >= crawl.started))

\* a target queued by an earlier crawl has been submitted again
C14_Witness ==
    \E t \in TargetIds :
        /\ TimesEmitted(t) = 1
        /\ Len(targets[t].queued) = 2
        /\ targets[t].queued[1] < crawl.started
        /\ Last(targets[t].queued) >= crawl.started

\* the timestamp read when the submit of the b-th emitted batch started: the
\* one the scheduler holds for the batch in hand, the one pushed to the
\* targets of an earlier batch.
SubmitStart(b) ==
    IF b = Len(emitted) THEN sched.timestamp[1]
    ELSE Last(targets[emitted[b][1]].queued)

\* the submit of the latest emitted batch has started
LatestSubmitStarted == emitted # <<>> /\ sched.pc # "submit"

\* C16: the submit of a batch never starts less than step_period after the
\* submit of the batch before it started, for every pair of consecutive
\* batches of a run, the first and the second included.
C16_Pacing ==
    LatestSubmitStarted =>
        \A b \in 1..(Len(emitted) - 1) :
            SubmitStart(b + 1) >= SubmitStart(b) + StepPeriod

\* the scheduler is not inside _submit
NoSubmitInProgress ==
    sched.pc \notin {"submit", "token", "dispatch", "mark", "update"}

\* every dispatched task has succeeded or has terminally failed
AllTasksSettled ==
    \A i \in DOMAIN tasks : tasks[i].state \in {"success", "failure"}

LatestSaveNew == ~lastSave.previous.exists

\* the latest save found a persisted document with the payload it was given
LatestSaveIdentical ==
    lastSave.previous.exists /\ lastSave.payload = lastSave.previous.payload

C19_IdenticalSaveOnlyWitnesses ==
    (lastSave.pk # "none" /\ LatestSaveIdentical) =>
        LET before == lastSave.previous
            after == store[lastSave.pk]
        IN /\ Len(after.witnesses) = Len(before.witnesses) + 1
           /\ SubSeq(after.witnesses, 1, Len(before.witnesses)) = before.witnesses
           /\ after.updates = before.updates
           /\ after.payload = before.payload
           /\ lastSave.changes_observed = 0

\* a document that already carries a patch was saved again with the payload
\* it has
C19_Witness ==
    /\ lastSave.pk # "none"
    /\ LatestSaveIdentical
    /\ Len(lastSave.previous.updates) = 1
    /\ Len(store[lastSave.pk].witnesses) = 3

(***************************************************************************)
(* Claims about combine_dicts_by_addition                                  *)
(***************************************************************************)

\* C20: for well-formed operands (None, or nested maps whose leaves are
\* numbers, 0 included, or None) the addition is commutative and
\* associative, and adding None, as the whole operand or as the value under
\* one key, returns the other operand unchanged.
C20_AdditionLaws ==
    /\ sums.pc \in {"triple", "none", "done"} => sums.ij = sums.ji
    /\ sums.pc \in {"none", "done"} => sums.ij_k = sums.i_jk
    /\ sums.pc = "done" =>
          /\ sums.i_none = operands[1]
          /\ sums.none_i = operands[1]
          /\ \A k \in DOMAIN sums.i_keynone : sums.i_keynone[k] = operands[1]
          /\ \A k \in DOMAIN sums.keynone_i : sums.keynone_i[k] = operands[1]

(***************************************************************************)
(* Claims about PipelineResult                                             *)
(***************************************************************************)

\* C21: the weight of self + other is other's weight when self's weight is
\* None, for every numeric weight, 0 included; it is the numeric sum when
\* both weights are numbers; and it is None only when both weights are None.
C21_WeightAddition ==
    sums.pc \in {"radd", "done"} =>
        LET a == operands[1].weight
            b == operands[2].weight
            w == sums.ij.weight
        IN /\ a = PyNone => w = b
           /\ b = PyNone => w = a
           /\ (a # PyNone /\ b # PyNone) => w = PyNum(a.v + b.v)
           /\ w = PyNone <=> (a = PyNone /\ b = PyNone)

(***************************************************************************)
(* Claims about the terminators                                            *)
(***************************************************************************)

\* the results the terminators of the step in progress have returned
ReturnedThisStep ==
    {trace.step.evaluated[k] : k \in {n \in DOMAIN trace.step.evaluated :
                                         ~trace.step.evaluated[n].raised}}

C23_BudgetTotal ==
    \A k \in DOMAIN trace.step.evaluated :
        LET e == trace.step.evaluated[k]
            total == trace.stored[run.i]
        IN (e.name = "budget" /\ DataStorage \in DOMAIN job[run.i].progress.pipeline_results) =>
              /\ ~e.raised
              /\ e.value = IF total.processed_documents * BudgetDec
                                  > Budget + total.new_documents * BudgetInc
                            THEN 1 ELSE 0

\* C24: when a step leaves the acquired budget as it was and does not lower
\* processed_documents, a budget terminator that returned 1 before the step
\* returns 1 after it.
C24_BudgetMonotone ==
    (/\ budgetRun.calls >= 2
     /\ ~budgetRun.result.raised
     /\ AcquiredBudget(budgetRun.previous.statistics, budgetRun.kwargs)
           = AcquiredBudget(budgetRun.statistics, budgetRun.kwargs)
     /\ budgetRun.previous.statistics.processed_documents
           <= budgetRun.statistics.processed_documents
     /\ budgetRun.previous.result = Returned(1))
    => budgetRun.result = Returned(1)

\* with the acquired budget unchanged the terminator went from 0 to 1 and
\* stayed at 1 in the step after
C24_Witness ==
    /\ budgetRun.calls >= 3
    /\ budgetRun.kwargs.budget_inc > 0
    /\ budgetRun.statistics.new_documents = 1
    /\ budgetRun.previous.statistics.new_documents = 1
    /\ budgetRun.previous.result = Returned(1)
    /\ budgetRun.result = Returned(1)

\* the numerators and the denominators of the shares of the recomputed buckets
ShareNumerators ==
    [i \in DOMAIN recompute.buckets |-> recompute.buckets[i].allocated_resources[1][1]]
ShareDenominators ==
    {recompute.buckets[i].allocated_resources[1][2] : i \in DOMAIN recompute.buckets}

\* C25: a recomputation of the uniform allocator ends with normalised
\* buckets, it does not end in an error; the shares of the buckets it returns
\* are importance_factor * absolute_size over one divisor, the sum of the
\* weights of all buckets, so that the shares sum to 1.
C25_SharesSumToOne ==
    /\ recompute.pc # "raised"
    /\ (recompute.pc = "returned" /\ recompute.buckets # <<>>) =>
          /\ \A i \in DOMAIN recompute.buckets :
                /\ recompute.buckets[i].allocated_resources # None
                /\ ShareNumerators[i] = recompute.buckets[i].importance_factor
                                           * recompute.buckets[i].absolute_size
          /\ Cardinality(ShareDenominators) = 1
          /\ \A d \in ShareDenominators : d > 0 /\ SeqSum(ShareNumerators) = d

\* C26: normalise works once: on a bucket never normalised it sets
\* allocated_resources to weight / total_weight, on a normalised bucket it
\* raises ValueError and leaves allocated_resources as it was; allocate on
\* a bucket never normalised raises ValueError and sends no query.
C26_NormaliseOnce ==
    /\ (bucket.last = "normalise" /\ bucket.before = None) =>
          /\ bucket.raised = ""
          /\ bucket.obj.allocated_resources =
                Some(<<bucket.obj.importance_factor * bucket.obj.absolute_size, bucket.arg>>)
    /\ (bucket.last = "normalise" /\ bucket.before # None) =>
          /\ bucket.raised = "ValueError"
          /\ bucket.obj.allocated_resources = bucket.before
    /\ (bucket.last = "allocate" /\ bucket.before = None) =>
          /\ bucket.raised = "ValueError"
          /\ bucket.queries = 0

\* a normalised bucket was normalised again, against another total weight
C26_Witness ==
    /\ bucket.last = "normalise"
    /\ bucket.before # None
    /\ bucket.before[1][2] # bucket.arg
    /\ bucket.raised = "ValueError"

\* the id, the tags and the kwargs of an argument of merge before the call
ArgId(x) == DictGet(x.fields, "id", None)
ArgTagSet(x) ==
    LET tags == DictGet(x.fields, "tags", <<>>) IN {tags[i] : i \in DOMAIN tags}
ArgKwargs(x) ==
    IF "kwargs" \in DOMAIN x.fields THEN merging.before[x.fields["kwargs"]] ELSE EmptyDict
MergedKwargs == merging.heap[merging.result.kwargs]
IdsConflict ==
    ArgId(merging.a) # None /\ ArgId(merging.b) # None /\ ArgId(merging.a) # ArgId(merging.b)

\* C27: merge(a, b) raises when a and b have different ids that are not
\* None; otherwise the kwargs of the result are those of a overridden by
\* those of b on shared keys, its tags are the union of both tag lists as a
\* set, and merge(a, a) has the id, the kwargs and the tag set of a; in
\* either case the dicts of a and b are as they were before the call.
C27_Merge ==
    merging.done =>
        /\ merging.heap["a"] = merging.before["a"]
        /\ merging.heap["b"] = merging.before["b"]
        /\ IdsConflict => merging.raised = "ValueError"
        /\ ~IdsConflict =>
              /\ merging.raised = ""
              /\ DOMAIN MergedKwargs = DOMAIN ArgKwargs(merging.a) \cup DOMAIN ArgKwargs(merging.b)
              /\ \A k \in DOMAIN MergedKwargs :
                    MergedKwargs[k] = IF k \in DOMAIN ArgKwargs(merging.b)
                                      THEN ArgKwargs(merging.b)[k]
                                      ELSE ArgKwargs(merging.a)[k]
              /\ {merging.result.tags[i] : i \in DOMAIN merging.result.tags}
                    = ArgTagSet(merging.a) \cup ArgTagSet(merging.b)
              /\ Len(merging.result.tags)
                    = Cardinality(ArgTagSet(merging.a) \cup ArgTagSet(merging.b))
              /\ (/\ ArgId(merging.a) = ArgId(merging.b)
                  /\ ArgTagSet(merging.a) = ArgTagSet(merging.b)
                  /\ ArgKwargs(merging.a) = ArgKwargs(merging.b)) =>
                    /\ merging.result.id = ArgId(merging.a)
                    /\ MergedKwargs = ArgKwargs(merging.a)
                    /\ {merging.result.tags[i] : i \in DOMAIN merging.result.tags}
                          = ArgTagSet(merging.a)

\* two targets were merged whose kwargs disagree on a shared key and whose
\* tag lists differ
C27_Witness ==
    /\ merging.done /\ merging.raised = ""
    /\ \E k \in DOMAIN ArgKwargs(merging.a) \cap DOMAIN ArgKwargs(merging.b) :
          ArgKwargs(merging.a)[k] # ArgKwargs(merging.b)[k]
    /\ ArgTagSet(merging.a) # ArgTagSet(merging.b)
    /\ ArgTagSet(merging.a) # {} /\ ArgTagSet(merging.b) # {}
    /\ merging.a.kind = "dict"

\* C28: sanitizing a sanitized string returns it as it is, and a sanitized
\* string holds no '.', no NUL and does not start with '$'.
C28_SanitizerIdempotent ==
    /\ keyRun.calls >= 1 =>
          /\ \A i \in DOMAIN keyRun.once : keyRun.once[i] \notin {".", NUL}
          /\ keyRun.once # <<>> => Head(keyRun.once) # "$"
    /\ keyRun.calls = 2 => keyRun.twice = keyRun.once

\* a string that starts with NUL and two '$' and holds a '.' was sanitized twice
C28_Witness ==
    /\ keyRun.calls = 2
    /\ Len(keyRun.s) >= 3
    /\ keyRun.s[1] = NUL /\ keyRun.s[2] = "$"
    /\ \E i \in DOMAIN keyRun.s : keyRun.s[i] = "."
    /\ keyRun.once = <<":">>

\* the keys of a filter, at every depth
RECURSIVE KeysAtAnyDepth(_)
KeysAtAnyDepth(x) ==
    IF x.t # "dict" THEN {}
    ELSE DOMAIN x.d \cup UNION {KeysAtAnyDepth(x.d[k]) : k \in DOMAIN x.d}
StoredKeys == {series.filter[i].s : i \in {j \in DOMAIN series.filter : series.filter[j].t = "key"}}

C30_NaturalTerminationRecorded ==
    run.pc = "callbacks" =>
        /\ run.spider.target_not_found =>
              TERMINATOR_KEY_TARGET_NOT_FOUND \in job[run.i].progress.terminated_by
        /\ run.spider.target_exhausted =>
              TERMINATOR_KEY_TARGET_EXHAUSTED \in job[run.i].progress.terminated_by

\* C31: the witness a save appends carries the time at which the save ran:
\* the timestamps of the witnesses of a document do not fall along the list,
\* the last one is the time of the latest save of the document, and the
\* witnesses of two saves made at different times differ in their timestamp.
C31_WitnessCarriesSaveTime ==
    lastSave.pk # "none" =>
        LET w == store[lastSave.pk].witnesses IN
        /\ \A i, j \in DOMAIN w : i < j => w[i].timestamp <= w[j].timestamp
        /\ Last(w).timestamp = docClock
        /\ \A i, j \in DOMAIN w : i < j => w[i].timestamp # w[j].timestamp

\* C32: once every begun save has written, each stored document has one
\* witness per save made of it, and of the saves of one document at most one
\* reported new_document = true, however the lookups and writes interleaved.
C32_NoLostSave ==
    (\A w \in StorageWorkers : storing.workers[w].pc = "idle") =>
        \A pk \in DocKeys :
            /\ store[pk].exists => Len(store[pk].witnesses) = saves[pk]
            /\ storing.reported_new[pk] <= 1

\* stage i of the task is over: the task went on to a later stage or returned
StageOver(i) == run.i > i \/ run.pc = "returned"

\* C33: the callbacks of a stage are sent once, each of them, when the loop
\* of the stage has ended, not while the stage still runs; at that point
\* every result of the stage has been yielded and the terminators of the last
\* step have all been evaluated; and the task goes on without their results.
C33_CallbacksOnceAfterLoop ==
    /\ \A i \in DOMAIN job :
          /\ StageOver(i) => trace.dispatched[i] = job[i].callbacks
          /\ ~StageOver(i) => trace.dispatched[i] = <<>>
    /\ run.pc = "callbacks" =>
          /\ trace.yields[run.i] = trace.emitted[run.i]
          /\ trace.emitted[run.i] > 0
          /\ trace.step.closed
          /\ Len(trace.step.evaluated) = Len(job[run.i].terminators)

\* a task of two stages has returned while the callback of its first stage
\* is still running, the callback of its second stage sent as well
C33_Witness ==
    /\ run.pc = "returned"
    /\ Len(job) = 2
    /\ trace.dispatched[1] = <<TargetMonitor>>
    /\ trace.dispatched[2] = <<TargetMonitor>>
    /\ trace.running[1] > 0

\* the results before request n that carried key k
ResultsWithKey(n, k) ==
    {i \in 1..(n - 1) : k \in DOMAIN spiderRun.results[i].subsequent_kwargs}
LatestOf(indices) == CHOOSE i \in indices : \A j \in indices : j <= i

\* C34: the kwargs of the n-th request of a spider hold the keys of the
\* target's kwargs and of the subsequent_kwargs of the results before it; a
\* key no result carried has the value of the target's kwargs, another has
\* the value of the latest result that carried it.
C34_RequestKwargs ==
    \A n \in DOMAIN spiderRun.requests :
        LET sent == spiderRun.requests[n] IN
        /\ DOMAIN sent = DOMAIN spiderRun.initial
              \cup UNION {DOMAIN spiderRun.results[i].subsequent_kwargs : i \in 1..(n - 1)}
        /\ \A k \in DOMAIN sent :
              sent[k] = IF ResultsWithKey(n, k) = {}
                        THEN spiderRun.initial[k]
                        ELSE spiderRun.results[LatestOf(ResultsWithKey(n, k))]
                                 .subsequent_kwargs[k]

\* a third request was sent after two results that carried the page, the
\* second another one than the first, and the first a cursor as well
C34_Witness ==
    /\ Len(spiderRun.requests) = 3
    /\ "page" \in DOMAIN spiderRun.initial
    /\ "cursor" \in DOMAIN spiderRun.results[1].subsequent_kwargs
    /\ "page" \in DOMAIN spiderRun.results[1].subsequent_kwargs
    /\ "cursor" \notin DOMAIN spiderRun.results[2].subsequent_kwargs
    /\ "page" \in DOMAIN spiderRun.results[2].subsequent_kwargs
    /\ spiderRun.results[2].subsequent_kwargs["page"]
          # spiderRun.results[1].subsequent_kwargs["page"]

\* C35: for every stage the three histories of its statistic hold one entry
\* per callback run for the stage, in the order in which the callbacks ran,
\* each with the value and the stamp of its callback; the current cost, gain
\* and result are those of the latest entry; and processed holds one stamp
\* per callback run, whatever the interleaving of the callbacks.
C35_OneEntryPerCallback ==
    /\ Len(monitored.target.processed)
          = SeqSum([i \in 1..Len(monitored.stages) |-> Len(monitored.ran[monitored.stages[i]])])
    /\ \A st \in StageNames :
          LET stat == monitored.target.statistics[st]
              ran == monitored.ran[st]
          IN /\ Len(stat.cost_history) = Len(ran)
             /\ Len(stat.gain_history) = Len(ran)
             /\ Len(stat.result_history) = Len(ran)
             /\ \A i \in DOMAIN ran :
                   /\ stat.cost_history[i] = [value |-> ran[i].cost, timestamp |-> ran[i].timestamp]
                   /\ stat.gain_history[i] = [value |-> ran[i].gain, timestamp |-> ran[i].timestamp]
                   /\ stat.result_history[i] = [value |-> ran[i].result, timestamp |-> ran[i].timestamp]
                   /\ ran[i].timestamp \in {monitored.target.processed[j] :
                                                 j \in DOMAIN monitored.target.processed}
             /\ ran # <<>> =>
                   /\ stat.cost = Last(stat.cost_history).value
                   /\ stat.gain = Last(stat.gain_history).value
                   /\ stat.result = Last(stat.result_history).value

\* two callbacks of one stage, both under way at once, ran in the other
\* order than they were sent, with different costs
C35_Witness ==
    /\ Len(monitored.ran["s1"]) = 2
    /\ monitored.ran["s1"][1].timestamp > monitored.ran["s1"][2].timestamp
    /\ monitored.ran["s1"][1].cost # monitored.ran["s1"][2].cost
    /\ monitored.callbacks = {}

\* C37: processed[series_id] of a target never holds more entries than
\* queued[series_id].
C37_ProcessedAtMostQueued ==
    Len(monitored.target.processed) <= Len(monitored.target.queued)

\* C36: the stored crawl never counts more finished and failed targets than
\* scheduled ones, also while a batch is being submitted.
C36_BackpressureNotNegative ==
    crawl.targets_finished + crawl.targets_failed <= crawl.targets_scheduled

\* StaticScheduler.start() has returned
StartReturned == sched.pc = "done"

\* C38: once start() has returned, finished is set on the scheduler's crawl
\* object and on the stored crawl, and on neither is it set before the
\* allocation loop has ended.
C38_FinishedOnReturn ==
    /\ StartReturned => memCrawl.finished # None /\ crawl.finished # None
    /\ ~AllocationEnded => memCrawl.finished = None /\ crawl.finished = None

\* every dispatched task has ended in on_success or on_failure
AllTasksEnded == \A i \in DOMAIN tasks : tasks[i].state \in {"success", "failure"}

\* start() eventually returns, after the allocation loop has ended
C39_StartReturns == <>(StartReturned /\ AllocationEnded)

\* start() has not returned while a dispatched task has not ended
C39_NoEarlyReturn == [](StartReturned => AllTasksEnded)

\* C39: when no task is lost and every dispatched task ends in on_success
\* or on_failure, StaticScheduler.start() eventually returns, and it does
\* not return while a task it dispatched is neither finished nor failed.
C39_StaticLiveness == C39_StartReturns /\ C39_NoEarlyReturn

\* C40: the kwargs of every Target one call of the target-discovery
\* pipeline builds are the kwargs of its default as the caller passed them,
\* overridden by the kwargs of its own discovered entry and by nothing
\* else, and the call leaves the caller's target_defaults as they were.
C40_OwnEntryOnly ==
    /\ \A i \in DOMAIN pairing.targets :
          LET t == pairing.targets[i] IN
          t.kwargs = DictUpdate(pairing.given[t.default].kwargs,
                                pairing.targets_kwargs[t.entry])
    /\ pairing.target_defaults = pairing.given

====
